---- MODULE Spec2Model ----
(***************************************************************************)
(* Model of the rt07-backend REST handlers: dues (iuran) lifecycle,        *)
(* expense (pengeluaran) bookkeeping with the balance check, the event     *)
(* ledger, and the settings store.  All state lives in the document store; *)
(* every handler is one action, except where a claim is about the          *)
(* interleaving of two requests (createPengeluaran is then split at its    *)
(* await points).                                                          *)
(***************************************************************************)
EXTENDS Integers, Sequences, FiniteSets, TLC

VARIABLES
    now,          \* the wall clock: the current month of CurrentYear (new Date())
    users,        \* userModel collection: sequence of user documents, _id = index
    iuran,        \* iuranModel collection: set of dues documents
    events,       \* eventModel collection: sequence of event documents, _id = index
    pengeluaran,  \* pengeluaranModel collection: sequence of expense documents
    settings,     \* settingsModel collection: set of {key, value} documents
    outbox,       \* notifications the last request handed to notificationService
    inflight,     \* createPengeluaran requests suspended between their awaits
    last          \* the last request served and its response

vars == <<now, users, iuran, events, pengeluaran, settings, outbox, inflight, last>>

----------------------------------------------------------------------------
(* Bounds of the model *)

CurrentYear == 2025
NumMonths == 2
MaxUsers == 2
MaxIuran == 3
MaxEvents == 1
MaxLines == 2
MaxDonations == 1
MaxPengeluaran == 2

(* Program constants *)

REQUIRED_AMOUNT_PER_PERIOD == 50000
DECEMBER == 12

(* the first month the modelled clock shows *)
FirstMonth == DECEMBER - NumMonths + 1

Null == 0

(* an absent string field (undefined / null / "") *)
NoString == ""

----------------------------------------------------------------------------
(* Numbers kept as strings (iuran.amount, event totals): a string is the   *)
(* sequence of its characters; String() formats and Number()/$toDouble     *)
(* parse, as JavaScript and the aggregation pipeline do for integers.      *)

Digit == <<"0", "1", "2", "3", "4", "5", "6", "7", "8", "9">>

RECURSIVE FormatNat(_)
FormatNat(n) ==
    IF n < 10 THEN <<Digit[n + 1]>>
    ELSE FormatNat(n \div 10) \o <<Digit[(n % 10) + 1]>>

String(n) == IF n < 0 THEN <<"-">> \o FormatNat(-n) ELSE FormatNat(n)

DigitValue(c) == CHOOSE d \in 0..9 : Digit[d + 1] = c

RECURSIVE ParseNat(_)
ParseNat(s) ==
    IF Len(s) = 1 THEN DigitValue(s[1])
    ELSE 10 * ParseNat(SubSeq(s, 1, Len(s) - 1)) + DigitValue(s[Len(s)])

Number(s) == IF s[1] = "-" THEN -ParseNat(Tail(s)) ELSE ParseNat(s)

ToDouble(s) == Number(s)

(* `${year}-${String(month).padStart(2, "0")}`: the period key "YYYY-MM",  *)
(* kept as the pair it denotes.                                            *)
Period(year, month) == <<year, month>>

getCurrentPeriod == Period(CurrentYear, now)

----------------------------------------------------------------------------
(* Helpers over the collections *)

(* Array.reduce((sum, x) => sum + x, 0) over a list of numbers *)
RECURSIVE SumSeq(_)
SumSeq(s) == IF s = <<>> THEN 0 ELSE Head(s) + SumSeq(Tail(s))

Range(s) == {s[i] : i \in DOMAIN s}

IuranIds == {d.id : d \in iuran}

(* _id of the next created dues document *)
NewIuranId(used) == CHOOSE i \in 1..(Cardinality(used) + 1) : i \notin used

(* findOne without a sort: the first matching document in natural order *)
FindOne(S) == CHOOSE d \in S : \A e \in S : d.id <= e.id

Roles == {"admin", "bendahara", "warga"}
Usernames == {"warga_satu", "warga_dua"}
ADMIN == "admin"
WARGA == "warga"

UNPAID == "unpaid"
PENDING == "pending"
PAID == "paid"
REJECTED == "rejected"

(* What the last request was and what it answered: op, the request       *)
(* arguments, the responses sent (response.success / error / notFound /    *)
(* unauthorized / conflict, in the order sent) and the response data.      *)
Reply(op, req, resp, out) == [op |-> op, req |-> req, resp |-> resp, out |-> out]

OK == <<"success">>
ValidationError == <<"validation error">>
NotFound == <<"notFound">>
Unauthorized == <<"unauthorized">>
Conflict == <<"conflict">>
ServerError == <<"server error">>

----------------------------------------------------------------------------
Init ==
    /\ now = FirstMonth
    /\ users = <<>>
    /\ iuran = {}
    /\ events = <<>>
    /\ pengeluaran = <<>>
    /\ settings = {}
    /\ outbox = {}
    /\ inflight = {}
    /\ last = Reply("init", <<>>, <<>>, <<>>)

(* Time passes: the clock moves to the next month of the year. *)
Tick ==
    /\ now < DECEMBER
    /\ now' = now + 1
    /\ last' = Reply("tick", <<>>, <<>>, <<>>)
    /\ outbox' = {}
    /\ UNCHANGED <<users, iuran, events, pengeluaran, settings, inflight>>

----------------------------------------------------------------------------
(* Dues documents.  payment_date and payment_method are stamped together   *)
(* with recorded_by and are not kept apart from it here.                   *)

(* a document whose type is always the schema default *)
NewIuranDefaultType(user, period, amount, type, status) ==
    [id |-> Null, user |-> user, period |-> period, amount |-> amount,
     status |-> status, type |-> "regular",
     proof_image_url |-> NoString, note |-> NoString,
     submitted_at |-> Null, confirmed_at |-> Null, confirmed_by |-> Null,
     recorded_by |-> Null, is_imported |-> FALSE]

(* The document iuranModel.create stores: schema defaults fill the rest.   *)
NewIuran(user, period, amount, type, status) ==
    [id |-> Null, user |-> user, period |-> period, amount |-> amount,
     status |-> status, type |-> type,
     proof_image_url |-> NoString, note |-> NoString,
     submitted_at |-> Null, confirmed_at |-> Null, confirmed_by |-> Null,
     recorded_by |-> Null, is_imported |-> FALSE]

(* iuranModel.create for each document of a list, in order: each gets a    *)
(* fresh _id.                                                              *)
RECURSIVE CreateMany(_, _)
CreateMany(used, docs) ==
    IF docs = <<>> THEN {}
    ELSE LET i == NewIuranId(used)
         IN {[Head(docs) EXCEPT !.id = i]} \cup CreateMany(used \cup {i}, Tail(docs))

(* The users of a set in _id order (the order find() returns them). *)
RECURSIVE InOrder(_)
InOrder(S) ==
    IF S = {} THEN <<>>
    ELSE LET u == CHOOSE x \in S : \A y \in S : x <= y
         IN <<u>> \o InOrder(S \ {u})

Room(created) == Cardinality(iuran) + Cardinality(created) <= MaxIuran

UsernameTaken(username) == \E u \in DOMAIN users : users[u].username = username

(* a back-fill that does not look at the role *)
registerIuranAnyRole(uid, role, status) ==
    IF status = "active"
    THEN CreateMany(IuranIds,
            [k \in 1..(DECEMBER - now + 1) |->
                NewIuran(uid, Period(CurrentYear, now + k - 1),
                         String(REQUIRED_AMOUNT_PER_PERIOD), "regular", UNPAID)])
    ELSE {}

(* register, the loop that back-fills dues: one unpaid regular document    *)
(* per month from the current month to December, for a user that is not    *)
(* ADMIN and is ACTIVE.                                                    *)
registerIuran(uid, role, status) ==
    IF role # ADMIN /\ status = "active"
    THEN CreateMany(IuranIds,
            [k \in 1..(DECEMBER - now + 1) |->
                NewIuran(uid, Period(CurrentYear, now + k - 1),
                         String(REQUIRED_AMOUNT_PER_PERIOD), "regular", UNPAID)])
    ELSE {}

register(username, role) ==
    /\ IF UsernameTaken(username)
       THEN /\ last' = Reply("register", <<username, role>>, Conflict, <<>>)
            /\ UNCHANGED <<users, iuran>>
       ELSE /\ Len(users) < MaxUsers
            /\ LET uid == Len(users) + 1
                   created == registerIuran(uid, role, "active")
               IN /\ Room(created)
                  /\ users' = Append(users, [username |-> username, role |-> role,
                                             status |-> "active", isDeleted |-> FALSE])
                  /\ iuran' = iuran \cup created
                  /\ last' = Reply("register", <<username, role>>, OK, uid)
    /\ outbox' = {}
    /\ UNCHANGED <<now, events, pengeluaran, settings, inflight>>

(* create (POST /iuran/create, a route the router keeps commented out):   *)
(* the caller submits a payment for a period of their own choosing; a      *)
(* pending document is created without a look at the documents that       *)
(* exist, the type left to the schema default.                             *)
create(userId, period, amount) ==
    /\ userId \in DOMAIN users
    /\ IF period = NoString \/ amount = NoString
       THEN /\ last' = Reply("create", <<userId, period, amount>>, ValidationError, <<>>)
            /\ UNCHANGED iuran
       ELSE LET created == CreateMany(IuranIds,
                              <<[NewIuran(userId, period, amount, "regular", PENDING)
                                    EXCEPT !.submitted_at = now]>>)
            IN /\ Room(created)
               /\ iuran' = iuran \cup created
               /\ last' = Reply("create", <<userId, period, amount>>, OK, <<>>)
    /\ outbox' = {}
    /\ UNCHANGED <<now, users, events, pengeluaran, settings, inflight>>

(* generateMonthlyIuran (manual trigger): every WARGA user without any     *)
(* dues document for the current period gets an unpaid one.                *)
generateMonthlyTargets ==
    {u \in DOMAIN users : users[u].role = WARGA}

(* a lookup that only sees documents already paid *)
generateMonthlyExistsPaid(u, period) ==
    \E d \in iuran : d.user = u /\ d.period = period /\ d.status = PAID

generateMonthlyExists(u, period) ==
    \E d \in iuran : d.user = u /\ d.period = period

generateMonthlyIuran ==
    LET period == getCurrentPeriod
        warga == generateMonthlyTargets
        todo == InOrder({u \in warga : ~generateMonthlyExists(u, period)})
        created == CreateMany(IuranIds,
                      [k \in DOMAIN todo |->
                          NewIuran(todo[k], period, String(REQUIRED_AMOUNT_PER_PERIOD),
                                   "regular", UNPAID)])
    IN /\ Room(created)
       /\ iuran' = iuran \cup created
       /\ last' = Reply("generateMonthlyIuran", period, OK,
                        [created |-> Len(todo),
                         skipped |-> Cardinality(warga) - Len(todo)])
       /\ outbox' = {}
       /\ UNCHANGED <<now, users, events, pengeluaran, settings, inflight>>

(* The scheduled job (1st of every month): every user except ADMIN without *)
(* a regular dues document for the current period gets an unpaid one; if   *)
(* any was created, each non-admin role is notified.                       *)
(* a lookup that finds nothing *)
cronExistsNever(u, period) == FALSE

cronExists(u, period) ==
    \E d \in iuran : d.user = u /\ d.period = period /\ d.type = "regular"

Notification(to, type, data) == [to |-> to, type |-> type, data |-> data]

(* a service that hands the error of a failed delivery to its caller *)
sendRethrows(delivered) == ~delivered

(* NotificationService.sendToUser / sendToRole: whether the call throws to *)
(* its caller.  A failed delivery is caught and logged inside the service. *)
sendThrows(delivered) == FALSE

(* the roles notified, in the order of the loop *)
nonAdminRoles == <<"bendahara", WARGA>>

monthlyIuranJob(delivered) ==
    LET period == getCurrentPeriod
        targets == {u \in DOMAIN users : users[u].role # ADMIN}
        todo == InOrder({u \in targets : ~cronExists(u, period)})
        created == CreateMany(IuranIds,
                      [k \in DOMAIN todo |->
                          NewIuran(todo[k], period, String(REQUIRED_AMOUNT_PER_PERIOD),
                                   "regular", UNPAID)])
        threw == Len(todo) > 0 /\ sendThrows(delivered)
        sent == IF Len(todo) = 0 THEN {}
                ELSE IF threw
                THEN {Notification(nonAdminRoles[1], "new_iuran", period)}
                ELSE {Notification(role, "new_iuran", period)
                         : role \in Range(nonAdminRoles)}
    IN /\ Room(created)
       /\ iuran' = iuran \cup created
       /\ outbox' = sent
       /\ last' = Reply("startMonthlyIuranGeneration", period, <<>>,
                        [created |-> Len(todo),
                         undelivered |-> IF delivered THEN 0 ELSE Cardinality(sent)])
       /\ UNCHANGED <<now, users, events, pengeluaran, settings, inflight>>

startMonthlyIuranGeneration == \E delivered \in BOOLEAN : monthlyIuranJob(delivered)

(* The scheduled job and the manual trigger taken one resident at a time,  *)
(* each iteration in its two awaits: the lookup (`await findOne`), which   *)
(* leaves the iteration suspended when nothing is found, and the create    *)
(* (`await iuranModel.create`) that follows.  Another run may be served    *)
(* between the two.  The collection has no unique index on user, period.   *)
cronFind(u) ==
    /\ u \in DOMAIN users
    /\ users[u].role # ADMIN
    /\ \A r \in inflight : r.k # "job"
    /\ LET period == getCurrentPeriod
           exists == cronExists(u, period)
       IN /\ inflight' = IF exists THEN inflight
                         ELSE inflight \cup {[k |-> "job", user |-> u, period |-> period]}
          /\ last' = Reply("cronFind", u, <<>>, exists)
    /\ outbox' = {}
    /\ UNCHANGED <<now, users, iuran, events, pengeluaran, settings>>

generateMonthlyFind(u) ==
    /\ u \in generateMonthlyTargets
    /\ \A r \in inflight : r.k # "manual"
    /\ LET period == getCurrentPeriod
           exists == generateMonthlyExists(u, period)
       IN /\ inflight' = IF exists THEN inflight
                         ELSE inflight \cup {[k |-> "manual", user |-> u, period |-> period]}
          /\ last' = Reply("generateMonthlyFind", u, <<>>, exists)
    /\ outbox' = {}
    /\ UNCHANGED <<now, users, iuran, events, pengeluaran, settings>>

(* the create of the suspended iteration of run k *)
generateCreate(k) ==
    /\ \E r \in inflight :
          /\ r.k = k
          /\ LET created == CreateMany(IuranIds,
                                <<NewIuran(r.user, r.period,
                                           String(REQUIRED_AMOUNT_PER_PERIOD),
                                           "regular", UNPAID)>>)
             IN /\ Room(created)
                /\ iuran' = iuran \cup created
          /\ inflight' = inflight \ {r}
          /\ last' = Reply("generateCreate", k, <<>>, r.user)
    /\ outbox' = {}
    /\ UNCHANGED <<now, users, events, pengeluaran, settings>>

(* createYearlyIuran: for every user except ADMIN and each of the twelve   *)
(* periods of the year, an unpaid regular document unless the user has a   *)
(* regular document for the period; the counts are reported per user.      *)
MIN_YEAR == 2020
MAX_YEAR == 2100

(* a look-up that takes any user's regular document for the period *)
createYearlyExistsAnyUser(u, period) ==
    \E d \in iuran : d.period = period /\ d.type = "regular"

createYearlyExists(u, period) ==
    \E d \in iuran : d.user = u /\ d.period = period /\ d.type = "regular"

(* the months of the year the user gets a document for, in order *)
createYearlyMonths(u, targetYear) ==
    SelectSeq([m \in 1..DECEMBER |-> m],
              LAMBDA m : ~createYearlyExists(u, Period(targetYear, m)))

RECURSIVE createYearlyDocs(_, _)
createYearlyDocs(targets, targetYear) ==
    IF targets = <<>> THEN <<>>
    ELSE LET u == Head(targets)
             months == createYearlyMonths(u, targetYear)
         IN [k \in DOMAIN months |->
                NewIuran(u, Period(targetYear, months[k]),
                         String(REQUIRED_AMOUNT_PER_PERIOD), "regular", UNPAID)]
            \o createYearlyDocs(Tail(targets), targetYear)

createYearlyIuran(year) ==
    /\ IF year = Null \/ year < MIN_YEAR \/ year > MAX_YEAR
       THEN /\ last' = Reply("createYearlyIuran", year, ValidationError, <<>>)
            /\ UNCHANGED iuran
       ELSE LET targets == InOrder({u \in DOMAIN users : users[u].role # ADMIN})
                userResults ==
                    [k \in DOMAIN targets |->
                        LET created == Len(createYearlyMonths(targets[k], year))
                        IN [userId |-> targets[k],
                            created |-> created,
                            skipped |-> DECEMBER - created]]
            IN IF targets = <<>>
               THEN /\ last' = Reply("createYearlyIuran", year, ValidationError, <<>>)
                    /\ UNCHANGED iuran
               ELSE /\ iuran' = iuran \cup CreateMany(IuranIds,
                                                      createYearlyDocs(targets, year))
                    /\ last' = Reply("createYearlyIuran", year, OK,
                          [year |-> year,
                           totalUsers |-> Len(targets),
                           totalCreated |->
                               SumSeq([k \in DOMAIN targets |-> userResults[k].created]),
                           totalSkipped |->
                               SumSeq([k \in DOMAIN targets |-> userResults[k].skipped]),
                           userResults |-> userResults])
    /\ outbox' = {}
    /\ UNCHANGED <<now, users, events, pengeluaran, settings, inflight>>

(* createYearlyIuran against a database that rejects a create: failAt is   *)
(* the position, among the users processed, of the user whose first create *)
(* is rejected (0: none is).  The creates of a user are started together   *)
(* and awaited with Promise.all, outside any try of their own: the         *)
(* rejection reaches the catch of the handler, which answers an error; the *)
(* other creates of that user are already under way, the users after are   *)
(* never reached.                                                          *)
createYearlyIuranDb(year, failAt) ==
    /\ IF year = Null \/ year < MIN_YEAR \/ year > MAX_YEAR
       THEN /\ last' = Reply("createYearlyIuran", <<year, failAt>>, ValidationError, <<>>)
            /\ UNCHANGED iuran
       ELSE LET targets == InOrder({u \in DOMAIN users : users[u].role # ADMIN})
                rejects == /\ failAt \in DOMAIN targets
                           /\ createYearlyMonths(targets[failAt], year) # <<>>
                reached == IF rejects THEN SubSeq(targets, 1, failAt) ELSE targets
                docs == createYearlyDocs(reached, year)
                rejected == NewIuran(targets[failAt],
                                     Period(year, Head(createYearlyMonths(targets[failAt], year))),
                                     String(REQUIRED_AMOUNT_PER_PERIOD), "regular", UNPAID)
                stored == IF rejects
                          THEN SelectSeq(docs, LAMBDA d : d # rejected)
                          ELSE docs
                userResults ==
                    [k \in DOMAIN targets |->
                        LET created == Len(createYearlyMonths(targets[k], year))
                        IN [userId |-> targets[k],
                            created |-> created,
                            skipped |-> DECEMBER - created]]
            IN IF targets = <<>>
               THEN /\ last' = Reply("createYearlyIuran", <<year, failAt>>,
                                     ValidationError, <<>>)
                    /\ UNCHANGED iuran
               ELSE /\ iuran' = iuran \cup CreateMany(IuranIds, stored)
                    /\ last' = IF rejects
                               THEN Reply("createYearlyIuran", <<year, failAt>>,
                                          ServerError, <<>>)
                               ELSE Reply("createYearlyIuran", <<year, failAt>>, OK,
                                      [year |-> year,
                                       totalUsers |-> Len(targets),
                                       totalCreated |->
                                           SumSeq([k \in DOMAIN targets |->
                                                      userResults[k].created]),
                                       totalSkipped |->
                                           SumSeq([k \in DOMAIN targets |->
                                                      userResults[k].skipped]),
                                       userResults |-> userResults])
    /\ outbox' = {}
    /\ UNCHANGED <<now, users, events, pengeluaran, settings, inflight>>

(* updateUserStatus: sets the lifecycle status; a user leaving "active"    *)
(* loses every dues document that is not paid.                             *)
validStatuses == {"active", "inactive", "away"}

updateUserStatus(id, status) ==
    /\ IF status \notin validStatuses
       THEN /\ last' = Reply("updateUserStatus", <<id, status>>, ValidationError, <<>>)
            /\ UNCHANGED <<users, iuran>>
       ELSE IF id \notin DOMAIN users
       THEN /\ last' = Reply("updateUserStatus", <<id, status>>, NotFound, <<>>)
            /\ UNCHANGED <<users, iuran>>
       ELSE LET oldStatus == users[id].status
            IN /\ users' = [users EXCEPT ![id].status = status]
               /\ iuran' = IF status # "active" /\ oldStatus = "active"
                           THEN {d \in iuran : ~(d.user = id /\ d.status # PAID)}
                           ELSE iuran
               /\ last' = Reply("updateUserStatus", <<id, status>>, OK, <<>>)
    /\ outbox' = {}
    /\ UNCHANGED <<now, events, pengeluaran, settings, inflight>>

(* the filter of the revision that removes the account with all its dues *)
deleteUserFilterAll(d, id) == d.user = id

(* deleteUser, the filter of deleteMany: the documents of the user whose   *)
(* status is not PAID.                                                     *)
deleteUserFilter(d, id) == d.user = id /\ d.status # PAID

(* deleteUser: the account is marked deleted (deletedAt, set and cleared   *)
(* together with isDeleted, is not kept apart from it) and the documents   *)
(* the filter matches are removed.                                         *)
deleteUser(id) ==
    /\ IF id \notin DOMAIN users
       THEN /\ last' = Reply("deleteUser", id, NotFound, <<>>)
            /\ UNCHANGED <<users, iuran>>
       ELSE LET deleted == {d \in iuran : deleteUserFilter(d, id)}
            IN /\ users' = [users EXCEPT ![id].isDeleted = TRUE]
               /\ iuran' = iuran \ deleted
               /\ last' = Reply("deleteUser", id, OK,
                                [deletedUnpaidIuran |-> Cardinality(deleted)])
    /\ outbox' = {}
    /\ UNCHANGED <<now, events, pengeluaran, settings, inflight>>

(* a lookup that finds nothing *)
restoreUserExistsNever(id, period) == FALSE

(* restoreUser, the lookup before each create: a regular document of the   *)
(* user for the period, in any status.                                     *)
restoreUserExists(id, period) ==
    \E d \in iuran : d.user = id /\ d.period = period /\ d.type = "regular"

(* the months from the current one to December without such a document *)
restoreUserMonths(id) ==
    SelectSeq([k \in 1..(DECEMBER - now + 1) |-> now + k - 1],
              LAMBDA month : ~restoreUserExists(id, Period(CurrentYear, month)))

(* restoreUser: a deleted account is restored as active and its dues are   *)
(* back-filled; an account that is not deleted is refused.                 *)
restoreUser(id) ==
    /\ IF id \notin DOMAIN users
       THEN /\ last' = Reply("restoreUser", id, NotFound, <<>>)
            /\ UNCHANGED <<users, iuran>>
       ELSE IF ~users[id].isDeleted
       THEN /\ last' = Reply("restoreUser", id, ValidationError, <<>>)
            /\ UNCHANGED <<users, iuran>>
       ELSE LET months == restoreUserMonths(id)
                created == CreateMany(IuranIds,
                              [k \in DOMAIN months |->
                                  NewIuran(id, Period(CurrentYear, months[k]),
                                           String(REQUIRED_AMOUNT_PER_PERIOD),
                                           "regular", UNPAID)])
            IN /\ Room(created)
               /\ users' = [users EXCEPT ![id].isDeleted = FALSE,
                                         ![id].status = "active"]
               /\ iuran' = iuran \cup created
               /\ last' = Reply("restoreUser", id, OK,
                                [iuranCreated |-> Len(months)])
    /\ outbox' = {}
    /\ UNCHANGED <<now, events, pengeluaran, settings, inflight>>

(* recordPayment, the loop over the listed periods: each period in turn    *)
(* looks for an unpaid document of the user and marks it paid, or adds an  *)
(* entry to errors.  Later periods see the updates of earlier ones.        *)
(* the same lookup without the status condition *)
recordPaymentMatchAnyStatus(docs, userId, period) ==
    {d \in docs : d.user = userId /\ d.period = period}

recordPaymentMatch(docs, userId, period) ==
    {d \in docs : d.user = userId /\ d.period = period /\ d.status = UNPAID}

RECURSIVE recordPaymentLoop(_, _, _, _, _)
recordPaymentLoop(docs, userId, bendaharaId, note, periods) ==
    IF periods = <<>>
    THEN [iuran |-> docs, updatedIuran |-> <<>>, errors |-> <<>>]
    ELSE LET period == Head(periods)
             match == recordPaymentMatch(docs, userId, period)
         IN IF match = {}
            THEN LET r == recordPaymentLoop(docs, userId, bendaharaId, note, Tail(periods))
                 IN [r EXCEPT !.errors = <<period>> \o @]
            ELSE LET d == FindOne(match)
                     paid == [d EXCEPT !.status = PAID,
                                       !.amount = String(REQUIRED_AMOUNT_PER_PERIOD),
                                       !.note = note,
                                       !.confirmed_at = now,
                                       !.confirmed_by = bendaharaId,
                                       !.recorded_by = bendaharaId]
                     r == recordPaymentLoop((docs \ {d}) \cup {paid}, userId,
                                            bendaharaId, note, Tail(periods))
                 IN [r EXCEPT !.updatedIuran = <<paid.id>> \o @]

(* a check of the amount that asks only for a positive number *)
recordPaymentAmountPositive(amount, periods) == amount > 0

(* the amount of a request: a positive number, exactly 50000 per listed    *)
(* period                                                                  *)
recordPaymentAmountValid(amount, periods) ==
    /\ amount > 0
    /\ amount = REQUIRED_AMOUNT_PER_PERIOD * Len(periods)

recordPayment(bendaharaId, userId, amount, periods, note) ==
    /\ bendaharaId \in DOMAIN users
    /\ users[bendaharaId].role \in {ADMIN, "bendahara"}
    /\ LET req == [userId |-> userId, amount |-> amount, periods |-> periods]
       IN IF userId \notin DOMAIN users
          THEN /\ last' = Reply("recordPayment", req, NotFound, <<>>)
               /\ UNCHANGED iuran
          ELSE IF ~recordPaymentAmountValid(amount, periods)
          THEN /\ last' = Reply("recordPayment", req, ValidationError, <<>>)
               /\ UNCHANGED iuran
          ELSE LET r == recordPaymentLoop(iuran, userId, bendaharaId, note, periods)
               IN /\ iuran' = r.iuran
                  /\ last' = Reply("recordPayment", req, OK,
                                   [success |-> Len(r.updatedIuran),
                                    failed |-> Len(r.errors),
                                    updatedIuran |-> r.updatedIuran,
                                    errors |-> r.errors])
    /\ outbox' = {}
    /\ UNCHANGED <<now, users, events, pengeluaran, settings, inflight>>

(* the loop against a database that throws on the update of the periods   *)
(* in failing: the catch inside the loop adds the period to errors and the *)
(* loop goes on.                                                           *)
RECURSIVE recordPaymentLoopDb(_, _, _, _, _, _)
recordPaymentLoopDb(docs, userId, bendaharaId, note, periods, failing) ==
    IF periods = <<>>
    THEN [iuran |-> docs, updatedIuran |-> <<>>, errors |-> <<>>]
    ELSE LET period == Head(periods)
             match == recordPaymentMatch(docs, userId, period)
         IN IF match = {} \/ period \in failing
            THEN LET r == recordPaymentLoopDb(docs, userId, bendaharaId, note,
                                              Tail(periods), failing)
                 IN [r EXCEPT !.errors = <<period>> \o @]
            ELSE LET d == FindOne(match)
                     paid == [d EXCEPT !.status = PAID,
                                       !.amount = String(REQUIRED_AMOUNT_PER_PERIOD),
                                       !.note = note,
                                       !.confirmed_at = now,
                                       !.confirmed_by = bendaharaId,
                                       !.recorded_by = bendaharaId]
                     r == recordPaymentLoopDb((docs \ {d}) \cup {paid}, userId,
                                              bendaharaId, note, Tail(periods), failing)
                 IN [r EXCEPT !.updatedIuran = <<paid.id>> \o @]

recordPaymentDb(bendaharaId, userId, amount, periods, note, failing) ==
    /\ bendaharaId \in DOMAIN users
    /\ users[bendaharaId].role \in {ADMIN, "bendahara"}
    /\ LET req == [userId |-> userId, amount |-> amount, periods |-> periods,
                   failing |-> failing]
       IN IF userId \notin DOMAIN users
          THEN /\ last' = Reply("recordPayment", req, NotFound, <<>>)
               /\ UNCHANGED iuran
          ELSE IF ~recordPaymentAmountValid(amount, periods)
          THEN /\ last' = Reply("recordPayment", req, ValidationError, <<>>)
               /\ UNCHANGED iuran
          ELSE LET r == recordPaymentLoopDb(iuran, userId, bendaharaId, note,
                                            periods, failing)
               IN /\ iuran' = r.iuran
                  /\ last' = Reply("recordPayment", req, OK,
                                   [success |-> Len(r.updatedIuran),
                                    failed |-> Len(r.errors),
                                    updatedIuran |-> r.updatedIuran,
                                    errors |-> r.errors])
    /\ outbox' = {}
    /\ UNCHANGED <<now, users, events, pengeluaran, settings, inflight>>

(* recordPayment in the revision that notifies the resident: the loop      *)
(* stores the amount of the request on every document it marks paid, then  *)
(* one "payment_recorded" notification is sent when anything was marked,   *)
(* then the summary is answered.  An error thrown by the send would reach  *)
(* the outer catch and be answered as an error, after the updates.         *)
recordPaymentNotify(bendaharaId, userId, amount, periods, note, delivered) ==
    /\ bendaharaId \in DOMAIN users
    /\ users[bendaharaId].role \in {ADMIN, "bendahara"}
    /\ LET req == [userId |-> userId, amount |-> amount, periods |-> periods]
       IN IF amount = 0 \/ periods = <<>>
          THEN /\ last' = Reply("recordPaymentNotify", req, ValidationError, <<>>)
               /\ UNCHANGED <<iuran, outbox>>
          ELSE IF userId \notin DOMAIN users
          THEN /\ last' = Reply("recordPaymentNotify", req, NotFound, <<>>)
               /\ UNCHANGED <<iuran, outbox>>
          ELSE LET r == recordPaymentLoop(iuran, userId, bendaharaId, note, periods)
                   sent == IF Len(r.updatedIuran) > 0
                           THEN {Notification(userId, "payment_recorded",
                                              r.updatedIuran)}
                           ELSE {}
                   threw == sent # {} /\ sendThrows(delivered)
               IN /\ iuran' = {IF d.id \in Range(r.updatedIuran)
                                THEN [d EXCEPT !.amount = String(amount)]
                                ELSE d : d \in r.iuran}
                  /\ outbox' = sent
                  /\ last' = Reply("recordPaymentNotify", req,
                                   IF threw THEN ServerError ELSE OK,
                                   [success |-> Len(r.updatedIuran),
                                    failed |-> Len(r.errors),
                                    updatedIuran |-> r.updatedIuran,
                                    errors |-> r.errors,
                                    undelivered |-> IF delivered THEN 0
                                                    ELSE Cardinality(sent)])
    /\ UNCHANGED <<now, users, events, pengeluaran, settings, inflight>>

(* the update without its date of submission *)
submitPaymentUpdateUndated(d) ==
    [d EXCEPT !.proof_image_url = "/uploads/proof",
              !.status = PENDING]

(* submitPayment: a WARGA uploads the proof of payment of one of their     *)
(* own dues documents.                                                     *)
submitPaymentUpdate(d) ==
    [d EXCEPT !.proof_image_url = "/uploads/proof",
              !.status = PENDING,
              !.submitted_at = now]

(* the checks of existence and ownership alone *)
submitPaymentCheckOwnerOnly(wargaId, id) ==
    IF id \notin IuranIds THEN NotFound
    ELSE LET d == CHOOSE x \in iuran : x.id = id
         IN IF d.user # wargaId THEN Unauthorized
            ELSE OK

(* the same checks without the one for a document awaiting confirmation *)
submitPaymentCheckPaidOnly(wargaId, id) ==
    IF id \notin IuranIds THEN NotFound
    ELSE LET d == CHOOSE x \in iuran : x.id = id
         IN IF d.user # wargaId THEN Unauthorized
            ELSE IF d.status = PAID THEN ValidationError
            ELSE OK

submitPaymentCheck(wargaId, id) ==
    IF id \notin IuranIds THEN NotFound
    ELSE LET d == CHOOSE x \in iuran : x.id = id
         IN IF d.user # wargaId THEN Unauthorized
            ELSE IF d.status = PAID THEN ValidationError
            ELSE IF d.status = PENDING THEN ValidationError
            ELSE OK

submitPayment(wargaId, id) ==
    /\ wargaId \in DOMAIN users
    /\ users[wargaId].role = WARGA
    /\ LET resp == submitPaymentCheck(wargaId, id)
       IN /\ iuran' = IF resp = OK
                      THEN {IF d.id = id THEN submitPaymentUpdate(d) ELSE d : d \in iuran}
                      ELSE iuran
          /\ last' = Reply("submitPayment", <<wargaId, id>>, resp, <<>>)
    /\ outbox' = {}
    /\ UNCHANGED <<now, users, events, pengeluaran, settings, inflight>>

(* updateStatus: an officer confirms or rejects a dues document.  When no  *)
(* document has the id, notFound is sent and, with no return after it,     *)
(* success as well.                                                        *)
updateStatusData(d, bendaharaId, status, note) ==
    [d EXCEPT !.status = status,
              !.confirmed_at = now,
              !.confirmed_by = bendaharaId,
              !.note = IF note # NoString THEN note ELSE @]

updateStatusNotify(d, status, note) == {}

updateStatus(bendaharaId, id, status, note) ==
    /\ bendaharaId \in DOMAIN users
    /\ users[bendaharaId].role \in {ADMIN, "bendahara"}
    /\ IF status \notin {PAID, REJECTED}
       THEN /\ last' = Reply("updateStatus", <<id, status, note>>, ValidationError, <<>>)
            /\ outbox' = {}
            /\ UNCHANGED iuran
       ELSE IF id \notin IuranIds
       THEN /\ last' = Reply("updateStatus", <<id, status, note>>,
                             NotFound \o OK, <<>>)
            /\ outbox' = {}
            /\ UNCHANGED iuran
       ELSE LET d == CHOOSE x \in iuran : x.id = id
            IN /\ iuran' = (iuran \ {d}) \cup {updateStatusData(d, bendaharaId, status, note)}
               /\ outbox' = updateStatusNotify(d, status, note)
               /\ last' = Reply("updateStatus", <<id, status, note>>, OK, bendaharaId)
    /\ UNCHANGED <<now, users, events, pengeluaran, settings, inflight>>

(* generateCustomPeriodIuran (POST /iuran/generate-custom): one unpaid     *)
(* custom document per eligible resident, without looking at the           *)
(* documents that exist.                                                   *)
generateCustomEligible ==
    {u \in DOMAIN users : users[u].role # ADMIN /\ users[u].status = "active"
                          /\ ~users[u].isDeleted}

generateCustomDocs(period, amount, description) ==
    LET todo == InOrder(generateCustomEligible)
    IN CreateMany(IuranIds,
          [k \in DOMAIN todo |->
              [NewIuran(todo[k], period, String(amount), "custom", UNPAID)
                  EXCEPT !.note = description]])

generateCustomPeriodIuran(period, amount, description) ==
    LET created == generateCustomDocs(period, amount, description)
    IN /\ Room(created)
       /\ iuran' = iuran \cup created
       /\ outbox' = {Notification(d.user, "custom_iuran", period) : d \in created}
       /\ last' = Reply("generateCustomPeriodIuran", <<period, amount>>, OK,
                        [created |-> Cardinality(created)])
       /\ UNCHANGED <<now, users, events, pengeluaran, settings, inflight>>

----------------------------------------------------------------------------
(* Settings *)

INITIAL_BALANCE == "initial_balance"

(* findOne({key}): the value of the setting, or the default *)
getSettingValue(key, defaultValue) ==
    IF \E s \in settings : s.key = key
    THEN (CHOOSE s \in settings : s.key = key).value
    ELSE defaultValue

(* updateInitialBalance: body is the initial_balance field of the request  *)
(* body, <<>> when the field is absent; the setting is upserted.           *)
updateInitialBalance(body) ==
    /\ IF body = <<>>
       THEN /\ last' = Reply("updateInitialBalance", body, ValidationError, <<>>)
            /\ UNCHANGED settings
       ELSE LET numericValue == body[1]
            IN /\ settings' = {s \in settings : s.key # INITIAL_BALANCE}
                                 \cup {[key |-> INITIAL_BALANCE, value |-> numericValue]}
               /\ last' = Reply("updateInitialBalance", body, OK,
                                [initial_balance |-> numericValue])
    /\ outbox' = {}
    /\ UNCHANGED <<now, users, iuran, events, pengeluaran, inflight>>

----------------------------------------------------------------------------
(* The balance and the expenses *)

(* $group {total: {$sum: {$toDouble: "$amount"}}} over a set of documents *)
RECURSIVE SumAmount(_)
SumAmount(docs) ==
    IF docs = {} THEN 0
    ELSE LET d == FindOne(docs)
         IN ToDouble(d.amount) + SumAmount(docs \ {d})

(* every paid dues document, imported or not *)
IncomeMatchAll == {d \in iuran : d.status = PAID}

(* $match {status: PAID, is_imported: {$ne: true}}: the dues the balance   *)
(* counts                                                                  *)
IncomeMatch == {d \in iuran : d.status = PAID /\ d.is_imported # TRUE}

IsCompleted(e) == e.status = "completed"

getCurrentBalance ==
    LET initialBalance == getSettingValue(INITIAL_BALANCE, 0)
        totalIuranIncome == SumAmount(IncomeMatch)
        completedEvents == SelectSeq(events, IsCompleted)
        totalEventDonations ==
            SumSeq([i \in DOMAIN completedEvents |->
                       Number(completedEvents[i].total_donations)])
        totalIncome == totalIuranIncome + totalEventDonations
        totalExpense == SumSeq([i \in DOMAIN pengeluaran |-> pengeluaran[i].total])
    IN initialBalance + totalIncome - totalExpense

(* getLaporanKeuangan: the financial report *)
getLaporanKeuangan ==
    LET completedEvents == SelectSeq(events, IsCompleted)
        totalIuranIncome == SumAmount(IncomeMatch)
        totalEventDonations ==
            SumSeq([i \in DOMAIN completedEvents |->
                       Number(completedEvents[i].total_donations)])
    IN /\ last' = Reply("getLaporanKeuangan", <<>>, OK,
                        [initial_balance |-> getSettingValue(INITIAL_BALANCE, 0),
                         total_income |-> totalIuranIncome + totalEventDonations,
                         total_iuran_income |-> totalIuranIncome,
                         total_event_donations |-> totalEventDonations,
                         total_expense |->
                             SumSeq([i \in DOMAIN pengeluaran |-> pengeluaran[i].total]),
                         balance |-> getCurrentBalance])
       /\ outbox' = {}
       /\ UNCHANGED <<now, users, iuran, events, pengeluaran, settings, inflight>>

(* the validation of the request alone *)
createPengeluaranNoCheck(title, total, items, currentBalance) ==
    IF title = NoString \/ total = 0 THEN ValidationError
    ELSE IF Len(items) = 0 THEN ValidationError
    ELSE OK

(* createPengeluaran up to the balance check: the response of a request    *)
(* that is refused, OK for one that goes on to create the document.        *)
createPengeluaranCheck(title, total, items, currentBalance) ==
    IF title = NoString \/ total = 0 THEN ValidationError
    ELSE IF Len(items) = 0 THEN ValidationError
    ELSE IF total > currentBalance THEN <<"insufficient balance">>
    ELSE OK

(* the document pengeluaranModel.create stores *)
NewPengeluaran(title, total, items) ==
    [title |-> title, total |-> total, items |-> items]

createPengeluaranOut(resp, title, total, items, currentBalance) ==
    IF resp = OK THEN NewPengeluaran(title, total, items)
    ELSE IF resp = ValidationError THEN <<>>
    ELSE [current_balance |-> currentBalance, requested_amount |-> total,
          difference |-> total - currentBalance]

(* createPengeluaran served without another request in between *)
createPengeluaran(title, total, items) ==
    LET currentBalance == getCurrentBalance
        resp == createPengeluaranCheck(title, total, items, currentBalance)
    IN /\ resp = OK => Len(pengeluaran) < MaxPengeluaran
       /\ pengeluaran' = IF resp = OK
                          THEN Append(pengeluaran, NewPengeluaran(title, total, items))
                          ELSE pengeluaran
       /\ last' = Reply("createPengeluaran", <<title, total>>, resp,
                        createPengeluaranOut(resp, title, total, items, currentBalance))
       /\ outbox' = {}
       /\ UNCHANGED <<now, users, iuran, events, settings, inflight>>

(* createPengeluaran of request k up to `await getCurrentBalance()` and    *)
(* the check on the balance read: a refused request answers at once, an    *)
(* accepted one is suspended with the balance it read.                     *)
createPengeluaranRead(k, title, total, items) ==
    LET currentBalance == getCurrentBalance
        resp == createPengeluaranCheck(title, total, items, currentBalance)
    IN /\ \A r \in inflight : r.k # k
       /\ IF resp = OK
          THEN /\ inflight' = inflight \cup
                                 {[k |-> k, title |-> title, total |-> total,
                                   items |-> items, currentBalance |-> currentBalance]}
               /\ last' = Reply("createPengeluaranRead", <<title, total>>, <<>>, k)
          ELSE /\ inflight' = inflight
               /\ last' = Reply("createPengeluaran", <<title, total>>, resp,
                               createPengeluaranOut(resp, title, total, items,
                                                    currentBalance))
       /\ outbox' = {}
       /\ UNCHANGED <<now, users, iuran, events, pengeluaran, settings>>

(* the rest of request k: `await pengeluaranModel.create(...)` and the     *)
(* response                                                                *)
createPengeluaranWrite(k) ==
    /\ \E r \in inflight :
          /\ r.k = k
          /\ Len(pengeluaran) < MaxPengeluaran
          /\ pengeluaran' = Append(pengeluaran, NewPengeluaran(r.title, r.total, r.items))
          /\ inflight' = inflight \ {r}
          /\ last' = Reply("createPengeluaran", <<r.title, r.total>>, OK,
                           NewPengeluaran(r.title, r.total, r.items))
    /\ outbox' = {}
    /\ UNCHANGED <<now, users, iuran, events, settings>>

(* a check of the new total itself against the balance *)
updatePengeluaranExceedsTotal(newTotal, oldTotal, currentBalance) ==
    newTotal > currentBalance

(* updatePengeluaran, the balance check: only an increase is compared      *)
(* with the balance.                                                       *)
updatePengeluaranExceeds(newTotal, oldTotal, currentBalance) ==
    LET difference == newTotal - oldTotal
    IN difference > 0 /\ difference > currentBalance

(* updatePengeluaran: body holds the fields of the request that are        *)
(* present among title, total and items.  The slug, regenerated from a     *)
(* changed title, is not kept apart from the title.                        *)
updatePengeluaran(id, body) ==
    /\ IF id \notin DOMAIN pengeluaran
       THEN /\ last' = Reply("updatePengeluaran", <<id, body>>, NotFound, <<>>)
            /\ UNCHANGED pengeluaran
       ELSE IF "items" \in DOMAIN body /\ Len(body.items) = 0
       THEN /\ last' = Reply("updatePengeluaran", <<id, body>>, ValidationError, <<>>)
            /\ UNCHANGED pengeluaran
       ELSE LET existingPengeluaran == pengeluaran[id]
                currentBalance == getCurrentBalance
            IN IF /\ "total" \in DOMAIN body
                  /\ updatePengeluaranExceeds(body.total, existingPengeluaran.total,
                                              currentBalance)
               THEN /\ last' = Reply("updatePengeluaran", <<id, body>>,
                                     <<"insufficient balance">>,
                                     [current_balance |-> currentBalance,
                                      old_total |-> existingPengeluaran.total,
                                      new_total |-> body.total,
                                      additional_required |->
                                          body.total - existingPengeluaran.total])
                    /\ UNCHANGED pengeluaran
               ELSE LET result ==
                           [title |-> IF "title" \in DOMAIN body /\ body.title # NoString
                                      THEN body.title
                                      ELSE existingPengeluaran.title,
                            total |-> IF "total" \in DOMAIN body
                                      THEN body.total
                                      ELSE existingPengeluaran.total,
                            items |-> IF "items" \in DOMAIN body
                                      THEN body.items
                                      ELSE existingPengeluaran.items]
                    IN /\ pengeluaran' = [pengeluaran EXCEPT ![id] = result]
                       /\ last' = Reply("updatePengeluaran", <<id, body>>, OK, result)
    /\ outbox' = {}
    /\ UNCHANGED <<now, users, iuran, events, settings, inflight>>

(* deletePengeluaran: removes the expense document *)
deletePengeluaran(id) ==
    /\ IF id \notin DOMAIN pengeluaran
       THEN /\ last' = Reply("deletePengeluaran", id, NotFound, <<>>)
            /\ UNCHANGED pengeluaran
       ELSE /\ pengeluaran' = [i \in 1..(Len(pengeluaran) - 1) |->
                                  IF i < id THEN pengeluaran[i] ELSE pengeluaran[i + 1]]
            /\ last' = Reply("deletePengeluaran", id, OK, <<>>)
    /\ outbox' = {}
    /\ UNCHANGED <<now, users, iuran, events, settings, inflight>>

----------------------------------------------------------------------------
(* importIuran, for a sheet of one row: the resident named nama (created   *)
(* as WARGA when no user has the name), dues from month start of the       *)
(* current year to December, paid where the sheet has a value.  The        *)
(* resident's documents of those periods are replaced by imported ones.    *)
(* a regeneration that takes every period of the row as paid *)
importIuranDocsAllPaid(uid, adminId, start, paid) ==
    [k \in 1..(DECEMBER - start + 1) |->
        [NewIuran(uid, Period(CurrentYear, start + k - 1),
                  String(REQUIRED_AMOUNT_PER_PERIOD), "regular", PAID)
            EXCEPT !.confirmed_at = now, !.confirmed_by = adminId,
                   !.recorded_by = adminId,
                   !.note = "Imported from Excel",
                   !.is_imported = TRUE]]

importIuranDocs(uid, adminId, start, paid) ==
    [k \in 1..(DECEMBER - start + 1) |->
        LET period == Period(CurrentYear, start + k - 1)
        IN IF period \in paid
           THEN [NewIuran(uid, period, String(REQUIRED_AMOUNT_PER_PERIOD),
                          "regular", PAID)
                    EXCEPT !.confirmed_at = now, !.confirmed_by = adminId,
                           !.recorded_by = adminId,
                           !.note = "Imported from Excel",
                           !.is_imported = TRUE]
           ELSE [NewIuran(uid, period, String(REQUIRED_AMOUNT_PER_PERIOD),
                          "regular", UNPAID)
                    EXCEPT !.is_imported = TRUE]]

importIuran(adminId, nama, start, paid, clear) ==
    /\ adminId \in DOMAIN users
    /\ LET found == UsernameTaken(nama)
           uid == IF found
                  THEN CHOOSE u \in DOMAIN users :
                          /\ users[u].username = nama
                          /\ \A v \in DOMAIN users :
                                users[v].username = nama => v <= u
                  ELSE Len(users) + 1
           cleared == IF clear THEN {d \in iuran : d.is_imported # TRUE} ELSE iuran
           parsed == start # Null
           kept == IF parsed
                   THEN {d \in cleared :
                           ~(d.user = uid /\ d.period[1] = CurrentYear
                                         /\ d.period[2] >= start)}
                   ELSE cleared
           created == IF parsed
                      THEN CreateMany({d.id : d \in kept},
                                      importIuranDocs(uid, adminId, start, paid))
                      ELSE {}
       IN /\ found \/ Len(users) < MaxUsers
          /\ Cardinality(kept) + Cardinality(created) <= MaxIuran
          /\ users' = IF found THEN users
                       ELSE Append(users, [username |-> nama, role |-> WARGA,
                                           status |-> "active", isDeleted |-> FALSE])
          /\ iuran' = kept \cup created
          /\ last' = Reply("importIuran", <<nama, start, paid, clear>>, OK,
                           [usersCreated |-> IF found THEN 0 ELSE 1,
                            usersFound |-> IF found THEN 1 ELSE 0,
                            iuranCreated |-> Cardinality(created),
                            errors |-> IF parsed THEN 0 ELSE 1,
                            user |-> uid])
    /\ outbox' = {}
    /\ UNCHANGED <<now, events, pengeluaran, settings, inflight>>

----------------------------------------------------------------------------
(* The event ledger *)

(* the donation and the expense lines there are, over all events *)
DonationLines == SumSeq([i \in DOMAIN events |-> Len(events[i].donations)])

ExpenseLineCount == SumSeq([i \in DOMAIN events |-> Len(events[i].expenses)])

(* a hook that recomputes the two totals and leaves the balance as stored *)
saveKeepBalance(e) ==
    LET totalDonations ==
            SumSeq([i \in DOMAIN e.donations |-> Number(e.donations[i].amount)])
        totalExpenses ==
            SumSeq([i \in DOMAIN e.expenses |-> Number(e.expenses[i].amount)])
    IN [e EXCEPT !.total_donations = String(totalDonations),
                 !.total_expenses = String(totalExpenses)]

(* eventSchema.pre("save"): the totals are recomputed from the lines *)
save(e) ==
    LET totalDonations ==
            SumSeq([i \in DOMAIN e.donations |-> Number(e.donations[i].amount)])
        totalExpenses ==
            SumSeq([i \in DOMAIN e.expenses |-> Number(e.expenses[i].amount)])
    IN [e EXCEPT !.total_donations = String(totalDonations),
                 !.total_expenses = String(totalExpenses),
                 !.balance = String(totalDonations - totalExpenses)]

createEvent(name) ==
    /\ IF name = NoString
       THEN /\ last' = Reply("createEvent", name, ValidationError, <<>>)
            /\ UNCHANGED events
       ELSE /\ Len(events) < MaxEvents
            /\ events' = Append(events,
                            save([name |-> name, donations |-> <<>>, expenses |-> <<>>,
                                  total_donations |-> String(0),
                                  total_expenses |-> String(0),
                                  balance |-> String(0),
                                  status |-> "planning", completed_at |-> Null]))
            /\ last' = Reply("createEvent", name, OK, Len(events) + 1)
    /\ outbox' = {}
    /\ UNCHANGED <<now, users, iuran, pengeluaran, settings, inflight>>

(* what is left under the id of an event removed by findByIdAndDelete *)
NoEvent ==
    [name |-> NoString, donations |-> <<>>, expenses |-> <<>>,
     total_donations |-> String(0), total_expenses |-> String(0),
     balance |-> String(0), status |-> NoString, completed_at |-> Null]

(* eventModel.findById(id) finds a document *)
findById(id) == id \in DOMAIN events /\ events[id] # NoEvent

(* update: findByIdAndUpdate of the fields given; no save hook runs *)
updateEvent(userRole, id, name, status) ==
    /\ IF ~findById(id)
       THEN /\ last' = Reply("updateEvent", <<userRole, id, name, status>>, NotFound, <<>>)
            /\ UNCHANGED events
       ELSE IF events[id].status = "completed" /\ userRole # ADMIN
       THEN /\ last' = Reply("updateEvent", <<userRole, id, name, status>>, ValidationError, <<>>)
            /\ UNCHANGED events
       ELSE /\ events' = [events EXCEPT
                             ![id].name = IF name # NoString THEN name ELSE @,
                             ![id].status = IF status # NoString THEN status ELSE @]
            /\ last' = Reply("updateEvent", <<userRole, id, name, status>>, OK, <<>>)
    /\ outbox' = {}
    /\ UNCHANGED <<now, users, iuran, pengeluaran, settings, inflight>>

(* an entry that leaves the status as it is *)
firstEntryStatusKept(status) == status

(* addDonation / addExpense: the first entry moves a planning event to     *)
(* active; any other status is left as it is.                              *)
firstEntryStatus(status) == IF status = "planning" THEN "active" ELSE status

addDonation(userRole, id, donor_name, amount) ==
    /\ IF donor_name = NoString \/ amount = 0
       THEN /\ last' = Reply("addDonation", <<userRole, id, amount>>, ValidationError, <<>>)
            /\ UNCHANGED events
       ELSE IF ~findById(id)
       THEN /\ last' = Reply("addDonation", <<userRole, id, amount>>, NotFound, <<>>)
            /\ UNCHANGED events
       ELSE IF events[id].status = "completed" /\ userRole # ADMIN
       THEN /\ last' = Reply("addDonation", <<userRole, id, amount>>, ValidationError, <<>>)
            /\ UNCHANGED events
       ELSE /\ DonationLines < MaxDonations
            /\ events' = [events EXCEPT ![id] =
                  save([@ EXCEPT
                          !.donations = Append(@, [donor_name |-> donor_name,
                                                   amount |-> String(amount)]),
                          !.status = firstEntryStatus(@)])]
            /\ last' = Reply("addDonation", <<userRole, id, amount>>, OK, <<>>)
    /\ outbox' = {}
    /\ UNCHANGED <<now, users, iuran, pengeluaran, settings, inflight>>

(* a delete that does not look at the status of the event *)
deleteEventAnyRole(userRole, id) ==
    /\ IF ~findById(id)
       THEN /\ last' = Reply("deleteEvent", <<userRole, id>>, NotFound, <<>>)
            /\ UNCHANGED events
       ELSE /\ events' = [events EXCEPT ![id] = NoEvent]
            /\ last' = Reply("deleteEvent", <<userRole, id>>, OK, <<>>)
    /\ outbox' = {}
    /\ UNCHANGED <<now, users, iuran, pengeluaran, settings, inflight>>

(* delete: findByIdAndDelete, refused on a completed event unless the     *)
(* caller is ADMIN                                                        *)
deleteEvent(userRole, id) ==
    /\ IF ~findById(id)
       THEN /\ last' = Reply("deleteEvent", <<userRole, id>>, NotFound, <<>>)
            /\ UNCHANGED events
       ELSE IF events[id].status = "completed" /\ userRole # ADMIN
       THEN /\ last' = Reply("deleteEvent", <<userRole, id>>, ValidationError, <<>>)
            /\ UNCHANGED events
       ELSE /\ events' = [events EXCEPT ![id] = NoEvent]
            /\ last' = Reply("deleteEvent", <<userRole, id>>, OK, <<>>)
    /\ outbox' = {}
    /\ UNCHANGED <<now, users, iuran, pengeluaran, settings, inflight>>

validCategories == {"HIBURAN", "LOMBA", "KONSUMSI", "LAINNYA"}

addExpense(userRole, id, description, amount, category) ==
    /\ IF description = NoString \/ amount = 0 \/ category = NoString
       THEN /\ last' = Reply("addExpense", <<userRole, id, description, amount, category>>,
                             ValidationError, <<>>)
            /\ UNCHANGED events
       ELSE IF category \notin validCategories
       THEN /\ last' = Reply("addExpense", <<userRole, id, description, amount, category>>,
                             ValidationError, <<>>)
            /\ UNCHANGED events
       ELSE IF ~findById(id)
       THEN /\ last' = Reply("addExpense", <<userRole, id, description, amount, category>>,
                             NotFound, <<>>)
            /\ UNCHANGED events
       ELSE IF events[id].status = "completed" /\ userRole # ADMIN
       THEN /\ last' = Reply("addExpense", <<userRole, id, description, amount, category>>,
                             ValidationError, <<>>)
            /\ UNCHANGED events
       ELSE /\ ExpenseLineCount < MaxLines
            /\ events' = [events EXCEPT ![id] =
                  save([@ EXCEPT
                          !.expenses = Append(@, [description |-> description,
                                                  amount |-> String(amount),
                                                  category |-> category]),
                          !.status = firstEntryStatus(@)])]
            /\ last' = Reply("addExpense", <<userRole, id, description, amount, category>>,
                             OK, <<>>)
    /\ outbox' = {}
    /\ UNCHANGED <<now, users, iuran, pengeluaran, settings, inflight>>

(* a loop that stops after the first expense line *)
completeEventFirstOnly(e) ==
    [i \in 1..(IF Len(e.expenses) = 0 THEN 0 ELSE 1) |->
        NewPengeluaran(e.name \o " - " \o e.expenses[i].description,
                       Number(e.expenses[i].amount),
                       <<[name |-> e.expenses[i].description,
                          price |-> Number(e.expenses[i].amount)]>>)]

(* completeEvent, the loop over the expense lines: one expense document   *)
(* per line, titled `${event.name} - ${expense.description}`.              *)
completeEventPengeluaran(e) ==
    [i \in DOMAIN e.expenses |->
        NewPengeluaran(e.name \o " - " \o e.expenses[i].description,
                       Number(e.expenses[i].amount),
                       <<[name |-> e.expenses[i].description,
                          price |-> Number(e.expenses[i].amount)]>>)]

completeEvent(id) ==
    /\ IF ~findById(id)
       THEN /\ last' = Reply("completeEvent", id, NotFound, <<>>)
            /\ UNCHANGED <<events, pengeluaran>>
       ELSE IF events[id].status = "completed"
       THEN /\ last' = Reply("completeEvent", id, ValidationError, <<>>)
            /\ UNCHANGED <<events, pengeluaran>>
       ELSE LET event == events[id]
                createdPengeluaran == completeEventPengeluaran(event)
            IN /\ Len(pengeluaran) + Len(createdPengeluaran) <= MaxPengeluaran
               /\ pengeluaran' = pengeluaran \o createdPengeluaran
               /\ events' = [events EXCEPT ![id] =
                               save([event EXCEPT !.status = "completed",
                                                  !.completed_at = now])]
               /\ last' = Reply("completeEvent", id, OK,
                                [balance |-> Number(event.balance),
                                 total_donations |-> Number(event.total_donations),
                                 total_expenses |-> Number(event.total_expenses),
                                 pengeluaran_created |-> Len(createdPengeluaran)])
    /\ outbox' = {}
    /\ UNCHANGED <<now, users, iuran, settings, inflight>>

----------------------------------------------------------------------------
(* Inputs of the requests *)

Periods == {Period(CurrentYear, m) : m \in FirstMonth..DECEMBER}
PeriodLists ==
    {<<p>> : p \in Periods}
        \cup {<<pq[1], pq[2]>> : pq \in {x \in Periods \X Periods : x[1][2] <= x[2][2]}}
(* amount and periods of a recordPayment request: the amount the periods   *)
(* call for, or twice the amount of a single period                        *)
RecordPaymentInputs ==
    {<<REQUIRED_AMOUNT_PER_PERIOD * Len(ps), ps>> : ps \in PeriodLists}
        \cup {<<2 * REQUIRED_AMOUNT_PER_PERIOD, <<p>>>> : p \in Periods}
Notes == {NoString, "note"}
StatusInputs == {UNPAID, PAID, REJECTED}
UserIdInputs == 1..MaxUsers
UserStatusInputs == {"active", "inactive"}
IuranIdInputs == 1..MaxIuran

RegisterStep == \E username \in Usernames, role \in Roles : register(username, role)

UpdateUserStatusStep ==
    \E id \in UserIdInputs, status \in UserStatusInputs : updateUserStatus(id, status)

GenerateCustomStep ==
    \E period \in Periods :
        generateCustomPeriodIuran(period, REQUIRED_AMOUNT_PER_PERIOD, "levy")

RecordPaymentStep ==
    \E b \in UserIdInputs, u \in UserIdInputs, inp \in RecordPaymentInputs :
        recordPayment(b, u, inp[1], inp[2], NoString)

SubmitPaymentStep == \E w \in UserIdInputs, id \in IuranIdInputs : submitPayment(w, id)

UpdateStatusStep ==
    \E b \in UserIdInputs, id \in IuranIdInputs, status \in StatusInputs, note \in Notes :
        updateStatus(b, id, status, note)

MaxRequests == 2

EventNames == {"Agustusan"}
(* name and status of an update request: a reopening *)
EventUpdates == {<<NoString, "active">>}
EventIdInputs == 1..MaxEvents
CallerRoles == {ADMIN, "bendahara"}
DonationAmounts == {0, 2 * REQUIRED_AMOUNT_PER_PERIOD}
ExpenseLines == {<<"tenda", REQUIRED_AMOUNT_PER_PERIOD, "LAINNYA">>,
                 <<"konsumsi", 2 * REQUIRED_AMOUNT_PER_PERIOD, "KONSUMSI">>,
                 <<"konsumsi", REQUIRED_AMOUNT_PER_PERIOD, "MAKAN">>}
InitialBalanceInputs == {<<>>, <<2 * REQUIRED_AMOUNT_PER_PERIOD>>}
PengeluaranInputs ==
    {<<"atk", REQUIRED_AMOUNT_PER_PERIOD, <<[name |-> "atk", price |-> REQUIRED_AMOUNT_PER_PERIOD]>>>>,
     <<"lampu", 2 * REQUIRED_AMOUNT_PER_PERIOD, <<[name |-> "lampu", price |-> 2 * REQUIRED_AMOUNT_PER_PERIOD]>>>>,
     <<"lampu", 0, <<>>>>}

UpdateInitialBalanceStep == \E body \in InitialBalanceInputs : updateInitialBalance(body)

CreatePengeluaranStep ==
    \E inp \in PengeluaranInputs : createPengeluaran(inp[1], inp[2], inp[3])

CreatePengeluaranReadStep ==
    \E k \in 1..MaxRequests, inp \in PengeluaranInputs :
        createPengeluaranRead(k, inp[1], inp[2], inp[3])

CreatePengeluaranWriteStep == \E k \in 1..MaxRequests : createPengeluaranWrite(k)

DeletePengeluaranStep == \E id \in 1..MaxPengeluaran : deletePengeluaran(id)

CreateEventStep == \E name \in EventNames \cup {NoString} : createEvent(name)

UpdateEventStep ==
    \E userRole \in CallerRoles, id \in EventIdInputs, upd \in EventUpdates :
        updateEvent(userRole, id, upd[1], upd[2])

AddDonationStep ==
    \E userRole \in CallerRoles, id \in EventIdInputs, amount \in DonationAmounts :
        addDonation(userRole, id, "hamba Allah", amount)

AddExpenseStep ==
    \E userRole \in CallerRoles, id \in EventIdInputs, line \in ExpenseLines :
        addExpense(userRole, id, line[1], line[2], line[3])

CompleteEventStep == \E id \in EventIdInputs : completeEvent(id)

DeleteEventStep ==
    \E userRole \in CallerRoles, id \in EventIdInputs : deleteEvent(userRole, id)

(* the registration of an admin and of a resident *)
RegisterPairStep ==
    \E inp \in {<<"warga_satu", ADMIN>>, <<"warga_dua", WARGA>>} :
        register(inp[1], inp[2])

(* a payment of the current month recorded for a resident by the first   *)
(* account                                                               *)
PayStep ==
    \E u \in UserIdInputs :
        recordPayment(1, u, REQUIRED_AMOUNT_PER_PERIOD, <<getCurrentPeriod>>, NoString)

(* a sheet whose row, for one resident, starts in December, paid or not,   *)
(* imported by the first account, an admin, on top of what is there        *)
ImportStep ==
    \E paid \in {{}, {Period(CurrentYear, DECEMBER)}} :
        /\ 1 \in DOMAIN users
        /\ users[1].role = ADMIN
        /\ importIuran(1, "warga_dua", DECEMBER, paid, FALSE)

(* the year of a createYearlyIuran request: absent, too early, this year *)
YearInputs == {Null, MIN_YEAR - 1, CurrentYear}

CreateYearlyStep == \E year \in YearInputs : createYearlyIuran(year)

(* Yearly generation over residents registered late in the year, some of   *)
(* whose dues were paid.                                                   *)
NextYearly ==
    \/ Tick
    \/ RegisterStep
    \/ PayStep
    \/ CreateYearlyStep
SpecYearly == Init /\ [][NextYearly]_vars

(* the registration of a treasurer and of a resident *)
RegisterResidentsStep ==
    \E inp \in {<<"warga_satu", "bendahara">>, <<"warga_dua", WARGA>>} :
        register(inp[1], inp[2])

(* a sheet of one row for one resident, sent by an officer: its start      *)
(* month (or a start that does not parse), the periods with a payment      *)
(* cell, and the clear flag                                                *)
ImportRowStep ==
    \E a \in UserIdInputs, start \in (FirstMonth..DECEMBER) \cup {Null},
       paid \in SUBSET Periods, clear \in BOOLEAN :
        /\ a \in DOMAIN users
        /\ users[a].role # WARGA
        /\ importIuran(a, "warga_dua", start, paid, clear)

(* Imports over residents who registered and paid. *)
NextImport ==
    \/ Tick
    \/ RegisterResidentsStep
    \/ PayStep
    \/ ImportRowStep
SpecImport == Init /\ [][NextImport]_vars

(* The event ledger and the expenses it posts. *)
NextEvent ==
    \/ CreateEventStep
    \/ UpdateEventStep
    \/ AddDonationStep
    \/ AddExpenseStep
    \/ CompleteEventStep
SpecEvent == Init /\ [][NextEvent]_vars

(* The same ledger with deletion, one kind of donation and of expense line *)
(* from either caller, and the malformed requests from the admin.          *)
AclDonationStep ==
    \E userRole \in CallerRoles, id \in EventIdInputs, amount \in DonationAmounts :
        /\ amount # 0 \/ userRole = ADMIN
        /\ addDonation(userRole, id, "hamba Allah", amount)

AclExpenseStep ==
    \E userRole \in CallerRoles, id \in EventIdInputs, line \in ExpenseLines :
        /\ line[1] = "konsumsi"
        /\ line[3] \in validCategories \/ userRole = ADMIN
        /\ addExpense(userRole, id, line[1], line[2], line[3])

NextEventAcl ==
    \/ CreateEventStep
    \/ UpdateEventStep
    \/ AclDonationStep
    \/ AclExpenseStep
    \/ CompleteEventStep
    \/ DeleteEventStep
SpecEventAcl == Init /\ [][NextEventAcl]_vars

(* The balance: paid and imported dues, completed events, expenses and    *)
(* the initial balance.                                                    *)
NextKeuangan ==
    \/ RegisterPairStep
    \/ PayStep
    \/ ImportStep
    \/ UpdateInitialBalanceStep
    \/ CreateEventStep
    \/ AddDonationStep
    \/ CompleteEventStep
    \/ CreatePengeluaranStep
    \/ getLaporanKeuangan
SpecKeuangan == Init /\ [][NextKeuangan]_vars

(* Two createPengeluaran requests at a time, each suspended between the    *)
(* balance it reads and the document it creates.                           *)
NextRace ==
    \/ UpdateInitialBalanceStep
    \/ CreatePengeluaranReadStep
    \/ CreatePengeluaranWriteStep
    \/ DeletePengeluaranStep
SpecRace == Init /\ [][NextRace]_vars

(* Registration as the months pass, among custom levies. *)
NextRegister == Tick \/ RegisterStep \/ GenerateCustomStep
SpecRegister == Init /\ [][NextRegister]_vars

(* Expenses created and updated against the opening balance. *)
UpdatePengeluaranInputs ==
    {[total |-> k * REQUIRED_AMOUNT_PER_PERIOD] : k \in 1..3}
        \cup {[title |-> "genset", total |-> 3 * REQUIRED_AMOUNT_PER_PERIOD],
              [title |-> "genset"],
              [items |-> <<>>, total |-> 3 * REQUIRED_AMOUNT_PER_PERIOD],
              [items |-> <<[name |-> "kabel", price |-> REQUIRED_AMOUNT_PER_PERIOD]>>]}

UpdatePengeluaranStep ==
    \E id \in 1..MaxPengeluaran, body \in UpdatePengeluaranInputs :
        updatePengeluaran(id, body)

NextUpdate == UpdateInitialBalanceStep \/ CreatePengeluaranStep \/ UpdatePengeluaranStep
SpecUpdate == Init /\ [][NextUpdate]_vars

(* Two generation runs at a time, for residents whose dues were removed    *)
(* when they left "active".                                                *)
CronFindStep == \E u \in UserIdInputs : cronFind(u)

GenerateMonthlyFindStep == \E u \in UserIdInputs : generateMonthlyFind(u)

GenerateCreateStep == \E k \in {"job", "manual"} : generateCreate(k)

NextGenerateRace ==
    \/ RegisterPairStep
    \/ UpdateUserStatusStep
    \/ CronFindStep
    \/ GenerateMonthlyFindStep
    \/ GenerateCreateStep
SpecGenerateRace == Init /\ [][NextGenerateRace]_vars

(* Batch requests against a database that may reject a write. *)
RecordPaymentDbStep ==
    \E u \in UserIdInputs, failing \in SUBSET Periods :
        recordPaymentDb(1, u, NumMonths * REQUIRED_AMOUNT_PER_PERIOD,
                        [k \in 1..NumMonths |-> Period(CurrentYear, FirstMonth + k - 1)],
                        NoString, failing)

CreateYearlyDbStep ==
    \E year \in YearInputs, failAt \in 0..MaxUsers : createYearlyIuranDb(year, failAt)

NextBatch == RegisterResidentsStep \/ RecordPaymentDbStep \/ CreateYearlyDbStep
SpecBatch == Init /\ [][NextBatch]_vars

(* Residents deleted and restored, among payments submitted, rejected and  *)
(* recorded; deletions are followed within one month.                     *)
DeleteUserStep == \E id \in UserIdInputs : deleteUser(id)

RestoreUserStep == \E id \in UserIdInputs : restoreUser(id)

(* an officer, with or without dues of their own, and a resident *)
RegisterOfficerStep ==
    \E inp \in {<<"warga_satu", ADMIN>>, <<"warga_satu", "bendahara">>,
                 <<"warga_dua", WARGA>>} :
        register(inp[1], inp[2])

RejectStep == \E id \in IuranIdInputs : updateStatus(1, id, REJECTED, NoString)

SubmitResidentStep == \E id \in IuranIdInputs : submitPayment(2, id)

NextDelete ==
    \/ RegisterOfficerStep
    \/ PayStep
    \/ SubmitResidentStep
    \/ RejectStep
    \/ DeleteUserStep
SpecDelete == Init /\ [][NextDelete]_vars

NextRestore ==
    \/ Tick
    \/ RegisterOfficerStep
    \/ PayStep
    \/ DeleteUserStep
    \/ RestoreUserStep
SpecRestore == Init /\ [][NextRestore]_vars

(* The three operations that write the status of a dues document. *)
OfficerStatusStep ==
    \E id \in IuranIdInputs, status \in StatusInputs : updateStatus(1, id, status, NoString)

NextTransitions ==
    RegisterOfficerStep \/ SubmitPaymentStep \/ OfficerStatusStep \/ PayStep
SpecTransitions == Init /\ [][NextTransitions]_vars

(* The operations that create dues documents, one at a time, within one    *)
(* month.                                                                  *)
CreateStep ==
    \E userId \in UserIdInputs, period \in {NoString, getCurrentPeriod} :
        create(userId, period, String(REQUIRED_AMOUNT_PER_PERIOD))

ImportUnpaidStep ==
    \E start \in FirstMonth..DECEMBER :
        /\ 1 \in DOMAIN users
        /\ users[1].role = ADMIN
        /\ importIuran(1, "warga_dua", start, {}, FALSE)

NextCreators ==
    \/ RegisterPairStep
    \/ generateMonthlyIuran
    \/ startMonthlyIuranGeneration
    \/ CreateYearlyStep
    \/ DeleteUserStep
    \/ RestoreUserStep
    \/ ImportUnpaidStep
    \/ CreateStep
SpecCreators == Init /\ [][NextCreators]_vars

(* Notifying operations with deliveries that succeed or fail: the payment  *)
(* recorded by an officer and the scheduled job, with residents leaving    *)
(* and re-entering "active".                                               *)
RecordPaymentNotifyStep ==
    \E u \in UserIdInputs, amount \in {0, REQUIRED_AMOUNT_PER_PERIOD},
       delivered \in BOOLEAN :
        recordPaymentNotify(1, u, amount, <<getCurrentPeriod>>, NoString, delivered)

NextNotify ==
    \/ Tick
    \/ RegisterResidentsStep
    \/ UpdateUserStatusStep
    \/ RecordPaymentNotifyStep
    \/ startMonthlyIuranGeneration
SpecNotify == Init /\ [][NextNotify]_vars

(* Periodic generation: the scheduled job and the manual trigger, with     *)
(* residents leaving and re-entering "active".                             *)
NextGenerate ==
    \/ Tick
    \/ RegisterStep
    \/ UpdateUserStatusStep
    \/ generateMonthlyIuran
    \/ startMonthlyIuranGeneration
SpecGenerate == Init /\ [][NextGenerate]_vars

(* Custom levies. *)
NextCustom == Tick \/ RegisterStep \/ UpdateUserStatusStep \/ GenerateCustomStep
SpecCustom == Init /\ [][NextCustom]_vars

(* Bulk recording of payments. *)
NextRecord == RegisterStep \/ GenerateCustomStep \/ RecordPaymentStep
SpecRecord == Init /\ [][NextRecord]_vars

(* Proof submission and confirmation. *)
NextStatus == RegisterStep \/ SubmitPaymentStep \/ UpdateStatusStep
SpecStatus == Init /\ [][NextStatus]_vars
(* Every operation that gives a dues document the status pending, paid or *)
(* rejected: the resident's submission, the officer's decision, the        *)
(* counter payment, the import of a sheet and the direct creation.         *)
CreateResidentStep ==
    create(2, getCurrentPeriod, String(REQUIRED_AMOUNT_PER_PERIOD))

DecideStep ==
    \E id \in IuranIdInputs, status \in {PAID, REJECTED} :
        updateStatus(1, id, status, NoString)

ImportPaidStep ==
    /\ 1 \in DOMAIN users
    /\ users[1].role = ADMIN
    /\ importIuran(1, "warga_dua", DECEMBER, {Period(CurrentYear, DECEMBER)}, FALSE)

NextStamps ==
    \/ RegisterPairStep
    \/ SubmitResidentStep
    \/ DecideStep
    \/ PayStep
    \/ ImportPaidStep
    \/ CreateResidentStep
SpecStamps == Init /\ [][NextStamps]_vars

(* Counter payments of regular dues and of a levy of another amount, with  *)
(* requests of one, two and three times the amount of a period.            *)
LEVY_AMOUNT == 2 * REQUIRED_AMOUNT_PER_PERIOD

LevyStep ==
    \E period \in Periods : generateCustomPeriodIuran(period, LEVY_AMOUNT, "levy")

RecordAmountInputs ==
    {REQUIRED_AMOUNT_PER_PERIOD * k : k \in 1..3} \X PeriodLists

RecordAmountStep ==
    \E u \in UserIdInputs, inp \in RecordAmountInputs :
        recordPayment(1, u, inp[1], inp[2], NoString)

NextAmount ==
    RegisterPairStep \/ generateMonthlyIuran \/ LevyStep \/ RecordAmountStep
SpecAmount == Init /\ [][NextAmount]_vars

(* Residents leaving "active" or deleted, and the yearly generation. *)
NextInactive ==
    \/ RegisterPairStep
    \/ UpdateUserStatusStep
    \/ DeleteUserStep
    \/ CreateYearlyStep
SpecInactive == Init /\ [][NextInactive]_vars

----------------------------------------------------------------------------
(* Properties *)

Occurrences(s, x) == Cardinality({i \in DOMAIN s : s[i] = x})

Min(a, b) == IF a <= b THEN a ELSE b

(* C4: a recordPayment request that passes validation marks paid only     *)
(* dues documents of the resident that were unpaid and whose period is     *)
(* listed; per listed period it marks as many as the period is listed,     *)
(* up to the number of unpaid documents there are, and every other listing *)
(* of the period is one entry of the error list and changes nothing; no    *)
(* document is created or removed; success + failed is the number of       *)
(* listed periods, repeats counted.                                        *)
RecordPaymentStepOK ==
    LET req == last'.req
        out == last'.out
        changed == iuran' \ iuran
        unpaidFor(p) == {d \in iuran : d.user = req.userId /\ d.period = p
                                        /\ d.status = UNPAID}
    IN /\ IuranIds' = IuranIds
       /\ \A d \in changed :
             /\ d.status = PAID
             /\ \E e \in iuran :
                   /\ e.id = d.id
                   /\ e.status = UNPAID
                   /\ e.user = req.userId
                   /\ e.period \in Range(req.periods)
                   /\ d.user = e.user /\ d.period = e.period
       /\ \A p \in Range(req.periods) :
             LET k == Min(Occurrences(req.periods, p), Cardinality(unpaidFor(p)))
             IN /\ Cardinality({d \in changed : d.period = p}) = k
                /\ Occurrences(out.errors, p) = Occurrences(req.periods, p) - k
       /\ Range(out.errors) \subseteq Range(req.periods)
       /\ out.success = Cardinality(changed)
       /\ out.failed = Len(out.errors)
       /\ out.success + out.failed = Len(req.periods)

RecordPaymentPartial ==
    [][(last'.op = "recordPayment" /\ last'.resp = OK) => RecordPaymentStepOK]_vars

(* a request that listed one period twice, paid one document and failed    *)
(* on the repeat                                                           *)
RecordPaymentPartialWitness ==
    /\ last.op = "recordPayment"
    /\ last.resp = OK
    /\ Len(last.req.periods) = 2
    /\ last.out.success = 1
    /\ last.out.failed = 1
    /\ \E d \in iuran : d.id = last.out.updatedIuran[1] /\ d.status = PAID

(* C5: periodic generation is idempotent: when the scheduled job, or the  *)
(* manual trigger, runs directly after a run of the same routine (so in    *)
(* the same period, nothing in between), the second run creates zero dues  *)
(* documents and leaves the collection as it was.                          *)
GenerationOps == {"generateMonthlyIuran", "startMonthlyIuranGeneration"}

GenerateIdempotent ==
    [][(last.op \in GenerationOps /\ last'.op = last.op)
          => (iuran' = iuran /\ last'.out.created = 0)]_vars

(* a run of the manual trigger that created nothing and skipped a resident *)
(* whose only document, for the current period, an earlier run created     *)
(* (register would have created the later months as well)                  *)
GenerateIdempotentWitness ==
    /\ last.op = "generateMonthlyIuran"
    /\ last.out.created = 0
    /\ last.out.skipped >= 1
    /\ now < DECEMBER
    /\ \E u \in DOMAIN users :
          /\ users[u].role = WARGA
          /\ {d.period : d \in {e \in iuran : e.user = u}} = {getCurrentPeriod}

(* C6: right after a successful register in month M of year Y, a new      *)
(* resident that is not an admin (register stores every new resident as    *)
(* active) has exactly one dues document for each period Y-M .. Y-12, of   *)
(* type regular and status unpaid, and none for any other period; a new    *)
(* admin has no dues document.                                             *)
RegisterBackfill ==
    (last.op = "register" /\ last.resp = OK) =>
        LET uid == last.out
            role == last.req[2]
            mine == {d \in iuran : d.user = uid}
        IN IF role = ADMIN
           THEN mine = {}
           ELSE /\ users[uid].status = "active"
                /\ \A m \in now..DECEMBER :
                      Cardinality({d \in mine : d.period = Period(CurrentYear, m)}) = 1
                /\ \A d \in mine :
                      /\ d.period \in {Period(CurrentYear, m) : m \in now..DECEMBER}
                      /\ d.type = "regular"
                      /\ d.status = UNPAID

(* a resident registered before December, holding a document for each of   *)
(* the months left, registered after another user                          *)
RegisterBackfillWitness ==
    /\ last.op = "register"
    /\ last.resp = OK
    /\ last.req[2] = WARGA
    /\ now < DECEMBER
    /\ Cardinality({d \in iuran : d.user = last.out}) = DECEMBER - now + 1
    /\ last.out > 1

(* What submitPayment answers and does, given the response it sends for a  *)
(* document that is paid or awaiting confirmation.                         *)
SubmitPaymentOutcome(refusal) ==
    LET w == last'.req[1]
        id == last'.req[2]
    IN IF id \notin IuranIds
       THEN last'.resp = NotFound /\ iuran' = iuran
       ELSE LET d == CHOOSE x \in iuran : x.id = id
            IN IF d.user # w
               THEN last'.resp = Unauthorized /\ iuran' = iuran
               ELSE IF d.status \in {PAID, PENDING}
               THEN last'.resp = refusal /\ iuran' = iuran
               ELSE /\ last'.resp = OK
                    /\ iuran' = (iuran \ {d}) \cup
                                   {[d EXCEPT !.proof_image_url = "/uploads/proof",
                                              !.submitted_at = now,
                                              !.status = PENDING]}

UpdateStatusNotifies ==
    /\ (last.op = "updateStatus" /\ last.req[2] \notin {PAID, REJECTED})
          => last.resp = ValidationError
    /\ (last.op = "updateStatus" /\ last.resp = OK) =>
          \E d \in iuran :
             /\ d.id = last.req[1]
             /\ d.status = last.req[2]
             /\ d.confirmed_at = now
             /\ d.confirmed_by = last.out
             /\ outbox = {Notification(d.user, "iuran_status_update",
                              [iuranId |-> d.id, period |-> d.period,
                               status |-> d.status,
                               note |-> IF d.status = REJECTED THEN d.note
                                        ELSE NoString])}

(* a rejection with a note, stamped on the document, with nothing handed   *)
(* to notificationService                                                  *)
UpdateStatusSilent ==
    /\ last.op = "updateStatus"
    /\ last.resp = OK
    /\ last.req[2] = REJECTED
    /\ outbox = {}
    /\ \E d \in iuran :
          /\ d.id = last.req[1]
          /\ d.status = REJECTED
          /\ d.note = "note"
          /\ d.confirmed_at = now
          /\ d.confirmed_by = last.out

(* C10: every custom generation for a period creates, for each eligible   *)
(* resident, one unpaid document of type custom for the period, whatever   *)
(* documents exist, and changes or removes no existing document; so a      *)
(* generation that directly follows one for the same period leaves every   *)
(* eligible resident with at least two custom documents for it.            *)
GenerateCustomStepOK ==
    LET period == last'.req[1]
        created == iuran' \ iuran
    IN /\ iuran \subseteq iuran'
       /\ \A u \in generateCustomEligible :
             Cardinality({d \in created : d.user = u}) = 1
       /\ \A d \in created :
             /\ d.user \in generateCustomEligible
             /\ d.period = period
             /\ d.type = "custom"
             /\ d.status = UNPAID
             /\ d.id \notin IuranIds
       /\ last'.out.created = Cardinality(generateCustomEligible)
       /\ (last.op = "generateCustomPeriodIuran" /\ last.req[1] = period) =>
             \A u \in generateCustomEligible :
                Cardinality({d \in iuran' : d.user = u /\ d.period = period
                                              /\ d.type = "custom"}) >= 2

GenerateCustomNotDeduplicated ==
    [][last'.op = "generateCustomPeriodIuran" => GenerateCustomStepOK]_vars

(* a resident holding a regular document for a period and, after two       *)
(* generations, two custom documents for it                                *)
GenerateCustomNotDeduplicatedWitness ==
    /\ last.op = "generateCustomPeriodIuran"
    /\ \E u \in generateCustomEligible :
          LET mine == {d \in iuran : d.user = u /\ d.period = last.req[1]}
          IN /\ Cardinality({d \in mine : d.type = "custom"}) = 2
             /\ Cardinality({d \in mine : d.type = "regular"}) = 1

(* C7: completeEvent on an event that is not completed, with N expense    *)
(* lines, appends exactly N expense documents, the i-th titled             *)
(* "{event name} - {description of line i}" with the amount of the line as *)
(* total, leaves the earlier expense documents alone, and sets the event   *)
(* status to completed with completed_at; completeEvent on a completed     *)
(* event, so a second one right after the first, is refused and creates    *)
(* nothing.                                                                *)
CompleteEventStepOK ==
    LET id == last'.req
        event == events[id]
        N == Len(event.expenses)
        before == Len(pengeluaran)
    IN /\ id \in DOMAIN events
       /\ IF event.status = "completed"
          THEN /\ last'.resp = ValidationError
               /\ pengeluaran' = pengeluaran
               /\ events' = events
          ELSE /\ last'.resp = OK
               /\ last'.out.pengeluaran_created = N
               /\ Len(pengeluaran') = before + N
               /\ SubSeq(pengeluaran', 1, before) = pengeluaran
               /\ \A i \in 1..N :
                     /\ pengeluaran'[before + i].title =
                            event.name \o " - " \o event.expenses[i].description
                     /\ String(pengeluaran'[before + i].total) = event.expenses[i].amount
               /\ events'[id].status = "completed"
               /\ events'[id].completed_at = now
               /\ events'[id].completed_at # Null
       /\ (last.op = "completeEvent" /\ last.resp = OK /\ last.req = id)
             => (last'.resp = ValidationError /\ pengeluaran' = pengeluaran)

CompleteEventOnce ==
    [][(last'.op = "completeEvent" /\ last'.resp # NotFound) => CompleteEventStepOK]_vars

(* a completion of an event with two expense lines, two expense documents  *)
(* created from them, and the second completeEvent refused                 *)
CompleteEventOnceWitness ==
    /\ last.op = "completeEvent"
    /\ last.resp = ValidationError
    /\ events[last.req].status = "completed"
    /\ events[last.req].completed_at # Null
    /\ Len(events[last.req].expenses) = 2
    /\ Len(pengeluaran) = 2
    /\ \A i \in 1..2 :
          pengeluaran[i].title =
              events[last.req].name \o " - " \o events[last.req].expenses[i].description
    /\ pengeluaran[1].title # pengeluaran[2].title

(* the sum of the values of a function over its (finite) domain *)
RECURSIVE SumOver(_)
SumOver(f) ==
    IF DOMAIN f = {} THEN 0
    ELSE LET x == CHOOSE y \in DOMAIN f : TRUE
         IN f[x] + SumOver([y \in DOMAIN f \ {x} |-> f[y]])

Ledger ==
    (IF \E s \in settings : s.key = "initial_balance"
     THEN (CHOOSE s \in settings : s.key = "initial_balance").value
     ELSE 0)
    + SumOver([d \in {x \in iuran : x.status = PAID /\ ~x.is_imported}
                  |-> Number(d.amount)])
    + SumOver([i \in {j \in DOMAIN events : events[j].status = "completed"}
                  |-> Number(events[i].total_donations)])
    - SumOver([i \in DOMAIN pengeluaran |-> pengeluaran[i].total])

(* C1: in every reachable state the current balance, and the balance field *)
(* of a report just served, is the initial_balance setting (0 when unset)  *)
(* plus the amounts of the paid dues documents not marked is_imported plus *)
(* total_donations of the completed events minus the totals of all         *)
(* expense documents.                                                      *)
BalanceIsLedger ==
    /\ getCurrentBalance = Ledger
    /\ last.op = "getLaporanKeuangan" => last.out.balance = Ledger

(* a report served when the setting, a paid dues document, an imported     *)
(* paid dues document, a completed event with donations and an expense     *)
(* are all there                                                           *)
BalanceIsLedgerWitness ==
    /\ last.op = "getLaporanKeuangan"
    /\ last.out.initial_balance > 0
    /\ last.out.total_iuran_income > 0
    /\ last.out.total_event_donations > 0
    /\ last.out.total_expense > 0
    /\ \E d \in iuran : d.status = PAID /\ d.is_imported
    /\ last.out.balance =
          last.out.initial_balance + last.out.total_iuran_income
              + last.out.total_event_donations - last.out.total_expense

(* C2: a createPengeluaran request whose total is greater than the current *)
(* balance creates no expense document: the expense documents are the same *)
(* before and after; the request, when it has its title, total and items,  *)
(* is answered with the insufficient-balance error.                        *)
InsufficientBalanceStep ==
    LET total == last'.req[2]
    IN total > getCurrentBalance =>
          /\ pengeluaran' = pengeluaran
          /\ last'.resp # OK
          /\ last'.resp # ValidationError =>
                /\ last'.resp = <<"insufficient balance">>
                /\ last'.out.current_balance = getCurrentBalance
                /\ last'.out.requested_amount = total

InsufficientBalanceRejected ==
    [][last'.op = "createPengeluaran" => InsufficientBalanceStep]_vars

(* a request refused for a total above a balance that is not zero, with    *)
(* an expense already there                                                *)
InsufficientBalanceRejectedWitness ==
    /\ last.op = "createPengeluaran"
    /\ last.resp = <<"insufficient balance">>
    /\ last.out.current_balance > 0
    /\ last.out.requested_amount > last.out.current_balance
    /\ Len(pengeluaran) >= 1

(* C3: every expense document created by a createPengeluaran request was   *)
(* covered by the balance that request read; all the same two requests     *)
(* that both read the balance before either creates its document both      *)
(* create it, and the balance ends negative (the state OverdrawnByRace).   *)
RaceWriteStep ==
    \E r \in inflight \ inflight' :
       /\ r.total <= r.currentBalance
       /\ pengeluaran' = Append(pengeluaran, NewPengeluaran(r.title, r.total, r.items))
       /\ (getCurrentBalance >= 0 /\ getCurrentBalance' < 0)
             => r.currentBalance > getCurrentBalance

EachRequestPassedCheck ==
    [][(last'.op = "createPengeluaran" /\ last'.resp = OK) => RaceWriteStep]_vars

OverdrawnByRace ==
    /\ last.op = "createPengeluaran"
    /\ last.resp = OK
    /\ Len(pengeluaran) = 2
    /\ \A i \in 1..2 : pengeluaran[i].total <= getSettingValue(INITIAL_BALANCE, 0)
    /\ getCurrentBalance < 0

(* C11: in every state reached through the event operations each event's   *)
(* total_donations is the sum of the amounts of its donation lines, its    *)
(* total_expenses the sum of the amounts of its expense lines, and its     *)
(* balance the first minus the second; no request leaves the three fields  *)
(* at values the lines do not give.                                        *)
EventTotalsFromLines ==
    \A id \in DOMAIN events :
        LET e == events[id]
            donated == SumOver([i \in DOMAIN e.donations |-> Number(e.donations[i].amount)])
            spent == SumOver([i \in DOMAIN e.expenses |-> Number(e.expenses[i].amount)])
        IN /\ e.total_donations = String(donated)
           /\ e.total_expenses = String(spent)
           /\ e.balance = String(donated - spent)

(* an event with a donation and two expense lines that outweigh it, its    *)
(* balance negative, after an accepted update                              *)
EventTotalsFromLinesWitness ==
    /\ last.op = "updateEvent"
    /\ last.resp = OK
    /\ Len(events[last.req[2]].donations) = 1
    /\ Len(events[last.req[2]].expenses) = 2
    /\ Number(events[last.req[2]].total_donations) > 0
    /\ Number(events[last.req[2]].balance) < 0

(* C12: a request to addDonation, addExpense, update or delete on an event *)
(* whose status is completed, made by a caller whose role is not admin, is *)
(* refused and leaves the collection of events as it was; the same request *)
(* made by an admin, when it carries its required fields, is accepted and  *)
(* adds the line, sets the status or deletes the event.                    *)
CompletedEventOps == {"addDonation", "addExpense", "updateEvent", "deleteEvent"}

CompletedEventStep ==
    LET op == last'.op
        userRole == last'.req[1]
        id == last'.req[2]
        wellFormed ==
            CASE op = "addDonation" -> last'.req[3] # 0
              [] op = "addExpense" -> last'.req[4] # 0 /\ last'.req[5] \in validCategories
              [] OTHER -> TRUE
    IN (findById(id) /\ events[id].status = "completed") =>
          IF userRole # ADMIN
          THEN /\ last'.resp = ValidationError
               /\ events' = events
          ELSE IF ~wellFormed
          THEN /\ last'.resp = ValidationError
               /\ events' = events
          ELSE /\ last'.resp = OK
               /\ CASE op = "addDonation" ->
                        /\ Len(events'[id].donations) = Len(events[id].donations) + 1
                        /\ events'[id].status = "completed"
                   [] op = "addExpense" ->
                        /\ Len(events'[id].expenses) = Len(events[id].expenses) + 1
                        /\ events'[id].status = "completed"
                   [] op = "updateEvent" ->
                        /\ last'.req[4] # NoString => events'[id].status = last'.req[4]
                        /\ events'[id].donations = events[id].donations
                        /\ events'[id].expenses = events[id].expenses
                   [] op = "deleteEvent" -> events'[id] = NoEvent

CompletedEventGuard ==
    [][last'.op \in CompletedEventOps => CompletedEventStep]_vars

(* a request of a treasurer refused on a completed event that holds an     *)
(* expense line an admin added after the completion (the line has no       *)
(* expense document)                                                       *)
CompletedEventGuardWitness ==
    /\ last.op \in CompletedEventOps
    /\ last.req[1] # ADMIN
    /\ last.resp = ValidationError
    /\ findById(last.req[2])
    /\ events[last.req[2]].status = "completed"
    /\ Len(events[last.req[2]].expenses) > Len(pengeluaran)

(* C13: an accepted createYearlyIuran(year) leaves, for every user that is *)
(* not an admin and each of the twelve periods of the year, the regular     *)
(* documents of the period as they were when there was one, and one new    *)
(* unpaid regular document when there was none; it creates nothing else;   *)
(* for each user the reported created + skipped is 12, created is the      *)
(* number of documents the user got, and totalCreated and totalSkipped are *)
(* the sums of the per-user counts.                                        *)
CreateYearlyStepOK ==
    LET year == last'.req
        out == last'.out
        targets == {u \in DOMAIN users : users[u].role # ADMIN}
        new == iuran' \ iuran
        Regular(S, u, m) ==
            {d \in S : d.user = u /\ d.period = Period(year, m) /\ d.type = "regular"}
    IN /\ iuran \subseteq iuran'
       /\ \A u \in targets, m \in 1..DECEMBER :
             IF Regular(iuran, u, m) # {}
             THEN Regular(iuran', u, m) = Regular(iuran, u, m)
             ELSE /\ Cardinality(Regular(iuran', u, m)) = 1
                  /\ \A d \in Regular(iuran', u, m) :
                        /\ d.status = UNPAID
                        /\ Number(d.amount) = REQUIRED_AMOUNT_PER_PERIOD
       /\ \A d \in new :
             /\ d.user \in targets
             /\ d.type = "regular"
             /\ d.period \in {Period(year, m) : m \in 1..DECEMBER}
       /\ out.totalUsers = Cardinality(targets)
       /\ {out.userResults[k].userId : k \in DOMAIN out.userResults} = targets
       /\ Len(out.userResults) = Cardinality(targets)
       /\ \A k \in DOMAIN out.userResults :
             LET r == out.userResults[k]
             IN /\ r.created + r.skipped = 12
                /\ r.created = Cardinality({d \in new : d.user = r.userId})
       /\ out.totalCreated = SumOver([k \in DOMAIN out.userResults |->
                                          out.userResults[k].created])
       /\ out.totalSkipped = SumOver([k \in DOMAIN out.userResults |->
                                          out.userResults[k].skipped])

CreateYearlyComplete ==
    [][(last'.op = "createYearlyIuran" /\ last'.resp = OK) => CreateYearlyStepOK]_vars

(* a yearly generation over two residents, one holding a paid document,    *)
(* with periods skipped for both and different counts for the two          *)
CreateYearlyCompleteWitness ==
    /\ last.op = "createYearlyIuran"
    /\ last.resp = OK
    /\ last.out.totalUsers = 2
    /\ last.out.userResults[1].skipped = 2
    /\ last.out.userResults[2].skipped = 1
    /\ last.out.totalCreated = 21
    /\ \E d \in iuran : d.status = PAID
    /\ Cardinality(iuran) = 24

(* C14: after importIuran has processed a row whose start parses, the      *)
(* resident of the row holds, for every period from the start through      *)
(* December of the current year, exactly one document: regular, imported,  *)
(* paid when the row has a payment cell for the period and unpaid          *)
(* otherwise, so that whatever the resident held in that range before is   *)
(* gone; the documents of other residents and of periods outside the range *)
(* are the ones there were when the rows began (after the clearing of      *)
(* imported documents, when the request asks for it).                      *)
ImportRowStepOK ==
    LET start == last'.req[2]
        paid == last'.req[3]
        clear == last'.req[4]
        uid == last'.out.user
        base == IF clear THEN {d \in iuran : ~d.is_imported} ELSE iuran
        InRange(d) ==
            d.user = uid /\ d.period[1] = CurrentYear /\ d.period[2] >= start
    IN /\ \A m \in start..DECEMBER :
             LET docs == {d \in iuran' : d.user = uid
                                          /\ d.period = Period(CurrentYear, m)}
             IN /\ Cardinality(docs) = 1
                /\ \A d \in docs :
                      /\ d.type = "regular"
                      /\ d.is_imported
                      /\ d.status = IF Period(CurrentYear, m) \in paid
                                    THEN PAID ELSE UNPAID
                      /\ d.proof_image_url = NoString
                      /\ d.submitted_at = Null
       /\ {d \in iuran' : ~InRange(d)} = {d \in base : ~InRange(d)}
       /\ last'.out.iuranCreated = DECEMBER - start + 1

DeliveryFailedRecordOK ==
    /\ last'.resp = OK
    /\ last'.out.success > 0
    /\ \A i \in Range(last'.out.updatedIuran) :
          /\ \E d \in iuran : d.id = i /\ d.status = UNPAID
                               /\ d.user = last'.req.userId
          /\ \E d \in iuran' : d.id = i /\ d.status = PAID
    /\ \A d \in iuran : d.id \notin Range(last'.out.updatedIuran) => d \in iuran'
    /\ Cardinality(iuran') = Cardinality(iuran)

DeliveryFailedJobOK ==
    /\ last'.out.created > 0
    /\ iuran \subseteq iuran'
    /\ Cardinality(iuran') = Cardinality(iuran) + last'.out.created
    /\ \A d \in iuran' \ iuran : d.period = last'.req /\ d.status = UNPAID

DeliveryFailureHarmless ==
    [][/\ (last'.op = "recordPaymentNotify" /\ last'.resp \notin {ValidationError, NotFound}
            /\ last'.out.undelivered > 0) => DeliveryFailedRecordOK
       /\ (last'.op = "startMonthlyIuranGeneration" /\ last'.out.undelivered > 0)
              => DeliveryFailedJobOK]_vars

DeliveryFailureHarmlessWitness ==
    /\ last.op = "recordPaymentNotify"
    /\ last.resp = OK
    /\ last.out.undelivered = 1
    /\ last.out.success = 1
    /\ \E d \in iuran : d.id = last.out.updatedIuran[1] /\ d.status = PAID
                          /\ d.user = last.req.userId
    /\ \E d \in iuran : d.status = UNPAID

DeliveryFailureJobWitness ==
    /\ last.op = "startMonthlyIuranGeneration"
    /\ last.out.undelivered = 2
    /\ last.out.created > 0
    /\ \E d \in iuran : d.period = last.req /\ d.status = UNPAID

(* C16: deleting a resident removes that resident's dues documents whose   *)
(* status is not paid (unpaid, pending and rejected alike) and nothing     *)
(* else: the resident's paid documents and every document of any other     *)
(* resident remain, and the account is marked deleted.                     *)
DeleteUserStepOK ==
    LET id == last'.req
    IN /\ iuran' \subseteq iuran
       /\ \A d \in iuran : d \in iuran' <=> (d.user # id \/ d.status = PAID)
       /\ last'.out.deletedUnpaidIuran = Cardinality(iuran \ iuran')
       /\ users'[id].isDeleted
       /\ \A u \in DOMAIN users : u # id => users'[u] = users[u]

RestoreUserStepOK ==
    LET id == last'.req
        missing == {Period(CurrentYear, m) : m \in now..DECEMBER}
                      \ {d.period : d \in {x \in iuran : x.user = id /\ x.type = "regular"}}
    IN /\ users[id].isDeleted
       /\ ~users'[id].isDeleted
       /\ users'[id].status = "active"
       /\ iuran \subseteq iuran'
       /\ \A d \in iuran' \ iuran :
             /\ d.user = id
             /\ d.type = "regular"
             /\ d.status = UNPAID
             /\ d.period \in missing
       /\ \A p \in missing : Cardinality({d \in iuran' \ iuran : d.period = p}) = 1
       /\ last'.out.iuranCreated = Cardinality(missing)

RestoreUserRefused ==
    /\ last'.resp = ValidationError
    /\ iuran' = iuran
    /\ users' = users

RestoreUserBackfill ==
    [][/\ (last'.op = "restoreUser" /\ last'.resp = OK) => RestoreUserStepOK
       /\ (last'.op = "restoreUser" /\ last'.req \in DOMAIN users
              /\ ~users[last'.req].isDeleted) => RestoreUserRefused]_vars

RestoreUserBackfillWitness ==
    /\ last.op = "restoreUser"
    /\ last.resp = OK
    /\ last.out.iuranCreated = 1
    /\ ~users[last.req].isDeleted
    /\ \E d \in iuran : d.user = last.req /\ d.status = PAID
    /\ \E d \in iuran : d.user = last.req /\ d.status = UNPAID

DeleteUserOthersWitness ==
    /\ last.op = "deleteUser"
    /\ last.resp = OK
    /\ last.out.deletedUnpaidIuran > 0
    /\ \E d \in iuran : d.user # last.req

(* C17: an accepted addDonation or addExpense leaves a planning event      *)
(* active and an active event active; neither moves an event to planning   *)
(* or to completed.                                                        *)
EntryStatusStep ==
    LET id == last'.req[2]
    IN /\ events[id].status = "planning" => events'[id].status = "active"
       /\ events[id].status = "active" => events'[id].status = "active"
       /\ events'[id].status # "planning"
       /\ events'[id].status = "completed" => events[id].status = "completed"

EntryActivatesEvent ==
    [][(last'.op \in {"addDonation", "addExpense"} /\ last'.resp = OK)
          => EntryStatusStep]_vars

EntryActivatesEventWitness ==
    /\ last.op = "addExpense"
    /\ last.resp = OK
    /\ events[last.req[2]].status = "active"
    /\ Len(events[last.req[2]].expenses) = 1
    /\ events[last.req[2]].donations = <<>>

(* C18: an update that passes validation and raises the total of an        *)
(* expense by more than the current balance is refused with "insufficient  *)
(* balance" and leaves every expense as it was; an update that lowers or   *)
(* keeps the total is never refused for the balance.                       *)
UpdatePengeluaranStepOK ==
    LET id == last'.req[1]
        body == last'.req[2]
        difference == body.total - pengeluaran[id].total
    IN /\ (difference > 0 /\ difference > getCurrentBalance)
             => /\ last'.resp = <<"insufficient balance">>
                /\ pengeluaran' = pengeluaran
                /\ last'.out.current_balance = getCurrentBalance
                /\ last'.out.additional_required = difference
       /\ difference <= 0
             => /\ last'.resp = OK
                /\ pengeluaran'[id].total = body.total

UpdateBalanceGuard ==
    [][(/\ last'.op = "updatePengeluaran"
        /\ last'.req[1] \in DOMAIN pengeluaran
        /\ "total" \in DOMAIN last'.req[2]
        /\ ("items" \in DOMAIN last'.req[2] => Len(last'.req[2].items) > 0))
          => UpdatePengeluaranStepOK]_vars

UpdateBalanceGuardWitness ==
    /\ last.op = "updatePengeluaran"
    /\ last.resp = <<"insufficient balance">>
    /\ last.out.additional_required > last.out.current_balance
    /\ last.out.current_balance > 0
    /\ pengeluaran[last.req[1]].total = last.out.old_total

(* C19: in a batch operation a write the database rejects is recorded in   *)
(* the result for its item and the remaining items are still processed:    *)
(* the request is answered with success, recordPayment marks every other   *)
(* listed period that has an unpaid document, and createYearlyIuran leaves *)
(* every user it covers with a document for each month it did not fail on. *)
RecordPaymentIsolatesStep ==
    LET req == last'.req
    IN /\ last'.resp = OK
       /\ \A p \in Range(req.periods) \cap req.failing :
             p \in Range(last'.out.errors)
       /\ \A p \in Range(req.periods) \ req.failing :
             (\E d \in iuran : d.user = req.userId /\ d.period = p /\ d.status = UNPAID)
                => \E d \in iuran' : d.user = req.userId /\ d.period = p
                                       /\ d.status = PAID

RecordPaymentIsolates ==
    [][(last'.op = "recordPayment" /\ last'.resp \notin {ValidationError, NotFound})
          => RecordPaymentIsolatesStep]_vars

RecordPaymentIsolatesWitness ==
    /\ last.op = "recordPayment"
    /\ last.resp = OK
    /\ last.out.success = 1
    /\ last.out.failed = 1
    /\ last.req.failing = {Period(CurrentYear, FirstMonth)}
    /\ \E d \in iuran : d.user = last.req.userId /\ d.status = UNPAID
                          /\ d.period = Period(CurrentYear, FirstMonth)
    /\ \E d \in iuran : d.user = last.req.userId /\ d.status = PAID
                          /\ d.period = Period(CurrentYear, FirstMonth + 1)

CreateYearlyIsolatesStep ==
    LET year == last'.req[1]
        targets == {u \in DOMAIN users : users[u].role # ADMIN}
    IN /\ last'.resp = OK
       /\ \A u \in targets :
             Cardinality({m \in 1..DECEMBER :
                             \E d \in iuran' : d.user = u /\ d.period = Period(year, m)
                                                  /\ d.type = "regular"})
                >= DECEMBER - 1

BatchIsolatesFailures ==
    [][/\ (last'.op = "recordPayment" /\ last'.resp \notin {ValidationError, NotFound})
          => RecordPaymentIsolatesStep
       /\ (last'.op = "createYearlyIuran" /\ last'.resp # ValidationError)
          => CreateYearlyIsolatesStep]_vars

(* a yearly generation stopped by a rejected create: an error is answered  *)
(* with no result for any item, and the documents of the other months stay *)
CreateYearlyAborted ==
    /\ last.op = "createYearlyIuran"
    /\ last.resp = ServerError
    /\ last.out = <<>>
    /\ last.req[2] = 1
    /\ Cardinality({d \in iuran : d.user = 1 /\ d.type = "regular"}) = DECEMBER - 1

(* C21: the status of an existing dues document changes only from unpaid   *)
(* or rejected to pending by submitPayment of its owner, to paid or        *)
(* rejected by updateStatus, and from unpaid to paid by recordPayment; no  *)
(* document goes back to unpaid and no paid document becomes pending.      *)
StatusChangeAllowed(d, e) ==
    \/ /\ last'.op = "submitPayment"
       /\ d.status \in {UNPAID, REJECTED}
       /\ e.status = PENDING
       /\ d.user = last'.req[1]
    \/ /\ last'.op = "updateStatus"
       /\ e.status \in {PAID, REJECTED}
    \/ /\ last'.op = "recordPayment"
       /\ d.status = UNPAID
       /\ e.status = PAID

StatusTransitions ==
    [][\A d \in iuran : \A e \in iuran' :
          (e.id = d.id /\ e.status # d.status)
             => /\ StatusChangeAllowed(d, e)
                /\ e.status # UNPAID
                /\ ~(d.status = PAID /\ e.status = PENDING)]_vars

StatusTransitionsWitness ==
    /\ last.op = "submitPayment"
    /\ last.resp = OK
    /\ \E d \in iuran : /\ d.id = last.req[2]
                          /\ d.status = PENDING
                          /\ d.confirmed_by # Null
    /\ \E d \in iuran : d.status = PAID /\ d.recorded_by # Null

(* C22: each expense line of an event is forked into at most one expense   *)
(* document: the expense documents made from the lines of an event are     *)
(* never more than its lines.                                              *)
ForkedFrom(e) ==
    {i \in DOMAIN pengeluaran :
        \E k \in DOMAIN e.expenses :
            pengeluaran[i].title = e.name \o " - " \o e.expenses[k].description}

ForkedAtMostOnce ==
    \A id \in DOMAIN events :
        findById(id) => Cardinality(ForkedFrom(events[id])) <= Len(events[id].expenses)

(* an event completed, reopened by an ADMIN and completed again: its one   *)
(* expense line stands twice among the expense documents                   *)
ExpenseLineForkedTwice ==
    /\ last.op = "completeEvent"
    /\ last.resp = OK
    /\ Len(events[last.req].expenses) = 1
    /\ Len(pengeluaran) = 2
    /\ pengeluaran[1] = pengeluaran[2]
    /\ events[last.req].status = "completed"

(* C23: a dues document that recordPayment or updateStatus moves to paid   *)
(* raises the balance by the amount stored on it, however the document was *)
(* created.                                                                *)
NewlyPaid ==
    {e \in iuran' : /\ e.status = PAID
                     /\ \E d \in iuran : d.id = e.id /\ d.status # PAID}

UniqueRegular ==
    \A d \in iuran : \A e \in iuran :
        (d.user = e.user /\ d.period = e.period
            /\ d.type = "regular" /\ e.type = "regular") => d.id = e.id

(* C24, amended: every dues-creating operation other than create keeps it  *)
(* so: from a state where each (resident, period) has at most one regular  *)
(* document it leads to such a state.                                      *)
UniqueRegularKept ==
    [][(last'.op # "create" /\ UniqueRegular) => UniqueRegular']_vars

UniqueRegularKeptWitness ==
    /\ last.op = "createYearlyIuran"
    /\ last.resp = OK
    /\ last.out.totalSkipped > 0
    /\ last.out.totalCreated > 0
    /\ UniqueRegular
    /\ \E d \in iuran : d.is_imported

(* C25: when two generation runs for the same period interleave, no        *)
(* resident ends with two regular dues documents for the period.           *)
NoDuplicateByRace ==
    inflight = {} =>
        \A u \in DOMAIN users : \A p \in Periods :
            Cardinality({d \in iuran : d.user = u /\ d.period = p
                                         /\ d.type = "regular"}) <= 1

(* both runs found nothing for the resident and both created a document *)
DuplicatedByRace ==
    /\ last.op = "generateCreate"
    /\ inflight = {}
    /\ Cardinality({d \in iuran : d.user = last.out /\ d.period = getCurrentPeriod
                                     /\ d.type = "regular" /\ d.status = UNPAID}) = 2

(* C26: for each completed event the totals of the expense documents made  *)
(* from its lines add up to its total_expenses.                            *)
ForkedTotal(e) ==
    SumOver([i \in DOMAIN pengeluaran |->
                IF i \in ForkedFrom(e) THEN pengeluaran[i].total ELSE 0])

CompletedEventForked ==
    \A id \in DOMAIN events :
        (findById(id) /\ events[id].status = "completed")
            => ForkedTotal(events[id]) = Number(events[id].total_expenses)

(* a line added by an ADMIN to a completed event: the event stays          *)
(* completed, its total_expenses counts the line, no expense document does *)
CompletedEventUnforkedLine ==
    /\ last.op = "addExpense"
    /\ last.resp = OK
    /\ last.req[1] = ADMIN
    /\ events[last.req[2]].status = "completed"
    /\ Len(events[last.req[2]].expenses) = 2
    /\ Len(pengeluaran) = 1
    /\ pengeluaran[1].total < Number(events[last.req[2]].total_expenses)

(* C27: a resident who is deleted, or whose status is inactive or away,    *)
(* holds no dues document with status unpaid.                              *)
InactiveHoldsNoUnpaid ==
    \A u \in DOMAIN users :
        (users[u].isDeleted \/ users[u].status \in {"inactive", "away"})
            => ~\E d \in iuran : d.user = u /\ d.status = UNPAID

(* a yearly generation after a resident became inactive: the resident has *)
(* an unpaid document for every month of the year                         *)
InactiveGivenDues ==
    /\ last.op = "createYearlyIuran"
    /\ last.resp = OK
    /\ \E u \in DOMAIN users :
          /\ users[u].status = "inactive"
          /\ Cardinality({d \in iuran : d.user = u /\ d.status = UNPAID}) = DECEMBER

UpdateStatusUnknownId ==
    [][(/\ last'.op = "updateStatus"
        /\ last'.req[2] \in {PAID, REJECTED}
        /\ last'.req[1] \notin IuranIds)
          => (last'.resp = NotFound /\ iuran' = iuran)]_vars

(* notFound and then success, sent for an id that no document has *)
UpdateStatusAnsweredTwice ==
    /\ last.op = "updateStatus"
    /\ last.req[2] \in {PAID, REJECTED}
    /\ last.req[1] \notin IuranIds
    /\ last.resp = NotFound \o OK

(* C30: recordPayment refuses, with no document changed, a request whose  *)
(* amount is not 50000 times the number of listed periods; every document  *)
(* it marks paid gets the amount "50000", and the amounts of the documents *)
(* it marks add up to 50000 times its success count.                       *)
RecordPaymentExactAmount ==
    [][last'.op = "recordPayment" =>
          LET req == last'.req
              marked == iuran' \ iuran
          IN /\ req.amount # REQUIRED_AMOUNT_PER_PERIOD * Len(req.periods)
                    => (last'.resp # OK /\ iuran' = iuran)
             /\ \A d \in marked :
                    /\ d.status = PAID
                    /\ d.amount = String(REQUIRED_AMOUNT_PER_PERIOD)
             /\ last'.resp = OK
                    => /\ Cardinality(marked) = last'.out.success
                       /\ SumAmount(marked)
                             = REQUIRED_AMOUNT_PER_PERIOD * last'.out.success]_vars

(* two documents marked by one request, one of them a levy of another      *)
(* amount                                                                  *)
RecordPaymentExactAmountWitness ==
    /\ last.op = "recordPayment"
    /\ last.resp = OK
    /\ last.out.success = 2
    /\ \E d \in iuran :
          /\ d.type = "custom"
          /\ d.status = PAID
          /\ d.amount = String(REQUIRED_AMOUNT_PER_PERIOD)
          /\ \E k \in DOMAIN last.out.updatedIuran : last.out.updatedIuran[k] = d.id

====
